---- MODULE Spec2Model ----
(***************************************************************************)
(* Verification model of the molt-in-the-mist analyzer: the graph builder *)
(* (buildGraph), the metrics engine (PageRank, betweenness, closeness,    *)
(* clustering), the community detector (detectCommunities,                *)
(* renumberCommunities, calculateModularity), the influence scorer        *)
(* (calculateInfluenceScores, buildNormalizer, assignTier) and the node   *)
(* selection of the exporter (selectNodes, expandWithConnections), the    *)
(* main sequence that chains them, and of the collector its run()         *)
(* sequence and its rate limiter (TokenBucketRateLimiter).                *)
(*                                                                         *)
(* Strings are modelled as the sequence of their pieces between           *)
(* occurrences of "->": "a" is <<"a">>, "a->b" is <<"a","b">>.  Since     *)
(* "->" cannot overlap itself this is a bijection between strings and     *)
(* non-empty sequences of "->"-free pieces, so that template              *)
(* concatenation `${s}->${t}` is sequence concatenation and               *)
(* String.split('->') is the identity on the sequence.                    *)
(*                                                                         *)
(* Floating-point quantities are modelled by exact rationals (integer     *)
(* numerators over an explicit common denominator).                       *)
(***************************************************************************)
EXTENDS Integers, Sequences, FiniteSets, TLC

VARIABLES
    \* ---- buildGraph (graph-builder) ----
    posts,        \* input: MoltbookPost[]
    comments,     \* input: MoltbookComment[]
    agents,       \* input: MoltbookAgent[]
    bpc,          \* position inside buildGraph
    bi,           \* index of the loop that is running
    nodes,        \* graph nodes: name -> attributes
    edgeCounts,   \* Map<string, {weight, types, posts}> in insertion order
    edges,        \* graph edges, in insertion order
    threw,        \* an exception escaped buildGraph
    \* ---- the analyzed graph (metrics engine, community detector) ----
    graph,        \* [n, w]: nodes 1..n in graph.nodes() order, w: edge -> weight
    \* ---- calculateBetweenness / calculateCloseness / calculateClustering ----
    mpc,          \* position inside the metrics pass
    sampleSize,   \* calculateBetweenness(graph, sampleSize); 0 is undefined
    sources,      \* the source nodes of Brandes' algorithm
    si,           \* index of the source being processed
    betweenness,  \* Map<string, number>
    closeness,    \* Map<string, number>
    clustering,   \* Map<string, number>
    \* ---- calculatePageRank ----
    prpc,         \* position inside calculatePageRank
    iter,         \* the number of passes of the power iteration made
    ranks,        \* numerators of the ranks, over rankDen
    rankDen,      \* the denominator the ranks share
    newRanks,     \* numerators of the new ranks, over NextDen(graph, rankDen)
    diff,         \* numerator of the summed absolute change, over the same
    \* ---- detectCommunities / calculateModularity ----
    cdpc,          \* position inside detectCommunities
    nodeCommunity, \* Map<string, number>
    improved,      \* the flag of the while loop
    iterations,    \* the pass counter
    ci,            \* index of the node of the for loop
    communityMap,  \* what detectCommunities returned
    modularity,    \* what calculateModularity returned
    \* ---- calculateInfluenceScores ----
    ipc,           \* position inside calculateInfluenceScores
    attrs,         \* the node attributes the scorer reads, per node
    weights,       \* the weights argument, in hundredths
    scores,        \* Array<{ name, score }>
    profiles,      \* InfluencerProfile[]
    \* ---- assignTier ----
    tpc,           \* position of the call of assignTier
    tierRank,      \* argument rank
    tierTotal,     \* argument total
    tier,          \* the tier returned
    \* ---- exportVisualizationData / selectNodes ----
    epc,           \* position inside selectNodes
    config,        \* AnalyzerConfig: tier, influencerTop, includeConnections, ...
    ei,            \* index of the core node of the loop of expandWithConnections
    included,      \* the string[] selectNodes returned
    bundle,        \* the VisualizationData exportVisualizationData returned
    \* ---- the analyzer's main sequence ----
    networkMetrics, \* the NetworkMetrics calculateAllMetrics returned
    firstRun,       \* the node metrics of an earlier run on the same input
    \* ---- TokenBucketRateLimiter ----
    bucket,        \* the limiter: maxTokens, refillRate, refillInterval, tokens, lastRefill
    now,           \* Date.now()
    callers,       \* per caller of acquire(): where it is, and when its sleep ends
    \* ---- Collector.run ----
    cpc,           \* position inside run()
    collectorConfig, \* CollectorConfig: dryRun, mode
    disk,          \* the directories and files under outputDir
    diskBefore,    \* the same, when run() was called
    collected      \* what the API has returned so far: posts, agents

buildVars == <<posts, comments, agents, bpc, bi, nodes, edgeCounts, edges, threw>>

metricVars == <<mpc, sampleSize, sources, si, betweenness, closeness, clustering>>

prVars == <<prpc, iter, ranks, rankDen, newRanks, diff>>

cdVars == <<cdpc, nodeCommunity, improved, iterations, ci, communityMap, modularity>>

infVars == <<ipc, attrs, weights, scores, profiles>>

tierVars == <<tpc, tierRank, tierTotal, tier>>

exVars == <<epc, config, ei, included, bundle>>

mainVars == <<networkMetrics, firstRun>>

limVars == <<bucket, now, callers>>

colVars == <<cpc, collectorConfig, disk, diskBefore, collected>>

vars == <<buildVars, graph, metricVars, prVars, cdVars, infVars, tierVars, exVars,
          mainVars, limVars, colVars>>

\* What a buildGraph step leaves alone
outsideBuild ==
    <<graph, metricVars, prVars, cdVars, infVars, tierVars, exVars,
      mainVars, limVars, colVars>>

\* What a metrics step leaves alone
outsideMetrics ==
    <<buildVars, prVars, cdVars, infVars, tierVars, exVars,
      mainVars, limVars, colVars>>

\* What a calculatePageRank step leaves alone
outsidePageRank ==
    <<buildVars, metricVars, cdVars, infVars, tierVars, exVars,
      mainVars, limVars, colVars>>

\* What a community-detection step leaves alone
outsideCommunity ==
    <<buildVars, metricVars, prVars, infVars, tierVars, exVars,
      mainVars, limVars, colVars>>

\* What a calculateInfluenceScores step leaves alone
outsideInfluence ==
    <<buildVars, graph, metricVars, prVars, cdVars, tierVars, exVars,
      mainVars, limVars, colVars>>

\* What a call of assignTier leaves alone
outsideTier ==
    <<buildVars, graph, metricVars, prVars, cdVars, infVars, exVars,
      mainVars, limVars, colVars>>

\* What a selectNodes step leaves alone
outsideExport ==
    <<buildVars, graph, metricVars, prVars, cdVars, infVars, tierVars,
      mainVars, limVars, colVars>>

\* ------------------------------------------------------------------------
\* Bounds and input domains
\* ------------------------------------------------------------------------

\* Largest number of comment records in an input batch.
MaxComments == 2

\* author: null
NullAuthor == <<>>

\* Agent names of the inputs; "a->b" is a legal name.
NameDomain == { <<"a">>, <<"b">>, <<"a", "b">> }

AuthorDomain == NameDomain \cup {NullAuthor}

\* parent_id: null
NoParent == 0

\* The agent collection is drawn from these records.
AgentPool ==
    << [name |-> <<"a">>, display_name |-> "Alice", karma |-> 7,
        post_count |-> 2, comment_count |-> 3],
       [name |-> <<"a", "b">>, display_name |-> "AB", karma |-> 4,
        post_count |-> 1, comment_count |-> 5] >>

AgentInputs == { <<>>, <<AgentPool[1]>>, <<AgentPool[1], AgentPool[2]>> }

PostInputs == { <<[id |-> "p1", author |-> a]>> : a \in AuthorDomain }

\* Comment number i of a batch of n: its id is i; its parent_id is null, the
\* id of a comment of the batch (itself included) or an id (n+1) that is not
\* in the batch; a top-level comment names post p1 or a post (px) that is
\* not in the input.
CommentChoices(i, n) ==
    { [id |-> i, post_id |-> pid, parent_id |-> par, author |-> a] :
        pid \in {"p1", "px"}, par \in 0..(n + 1), a \in AuthorDomain }

CommentInputs ==
    UNION { { cs \in [1..n -> UNION { CommentChoices(i, n) : i \in 1..n }] :
                \A i \in 1..n : cs[i].id = i /\
                                (cs[i].parent_id # NoParent => cs[i].post_id = "p1") }
            : n \in 0..MaxComments }

\* ------------------------------------------------------------------------
\* buildGraph
\* ------------------------------------------------------------------------

\* Mutant: the graph is created with multi: true
GraphMultiMutant == TRUE

\* new Graph({ type: 'directed', multi: false, allowSelfLoops: false })
GraphMulti == FALSE
GraphAllowSelfLoops == FALSE

\* x.author?.name : the name, or undefined (NullAuthor) for a null author
AuthorName(rec) == rec.author

\* JavaScript truthiness of an optional name
Truthy(name) == name # NullAuthor

\* Mutant: the authors of comments are not added to agentSet
AgentSetNoCommentAuthors(ps, cs, as) ==
    { as[k].name : k \in 1..Len(as) }
      \cup { ps[k].author : k \in { j \in 1..Len(ps) : ps[j].author # NullAuthor } }

\* agentSet: the agents' names plus every truthy author name of posts and
\* comments
AgentSet(ps, cs, as) ==
    { as[k].name : k \in 1..Len(as) }
      \cup { AuthorName(ps[k]) : k \in { j \in 1..Len(ps) : Truthy(AuthorName(ps[j])) } }
      \cup { AuthorName(cs[k]) : k \in { j \in 1..Len(cs) : Truthy(AuthorName(cs[j])) } }

\* agentMap.get(name): new Map(agents.map(a => [a.name, a])), the last record
\* of a name wins
AgentMapHas(as, name) == \E k \in 1..Len(as) : as[k].name = name

AgentMapGet(as, name) ==
    as[CHOOSE k \in 1..Len(as) :
          as[k].name = name /\ \A j \in (k + 1)..Len(as) : as[j].name # name]

\* The attributes graph.addNode gives a node
NodeAttrs(as, name) ==
    IF AgentMapHas(as, name)
    THEN LET d == AgentMapGet(as, name)
         IN [label |-> d.display_name, karma |-> d.karma,
             post_count |-> d.post_count, comment_count |-> d.comment_count]
    ELSE [label |-> name, karma |-> 0, post_count |-> 0, comment_count |-> 0]

\* The node table after the "Add nodes" loop
BuildNodes(ps, cs, as) == [name \in AgentSet(ps, cs, as) |-> NodeAttrs(as, name)]

\* commentMap = new Map(comments.map(c => [c.id, c]))
CommentMapHas(cs, id) == \E k \in 1..Len(cs) : cs[k].id = id

CommentMapGet(cs, id) ==
    cs[CHOOSE k \in 1..Len(cs) :
          cs[k].id = id /\ \A j \in (k + 1)..Len(cs) : cs[j].id # id]

\* postMap = new Map(posts.map(p => [p.id, p]))
PostMapHas(ps, id) == \E k \in 1..Len(ps) : ps[k].id = id

PostMapGet(ps, id) ==
    ps[CHOOSE k \in 1..Len(ps) :
          ps[k].id = id /\ \A j \in (k + 1)..Len(ps) : ps[j].id # id]

\* edgeKey = `${source}->${target}`
EdgeKey(source, target) == source \o target

\* edgeCounts.get(edgeKey) ... weight++ / edgeCounts.set(edgeKey, {weight: 1, ...})
CountInteraction(ec, key, pid) ==
    IF \E j \in 1..Len(ec) : ec[j].key = key
    THEN [j \in 1..Len(ec) |->
            IF ec[j].key = key
            THEN [ec[j] EXCEPT !.weight = @ + 1,
                               !.types = @ \cup {"reply"},
                               !.posts = @ \cup {pid}]
            ELSE ec[j]]
    ELSE Append(ec, [key |-> key, weight |-> 1, types |-> {"reply"}, posts |-> {pid}])

\* The guards both comment loops share, and the counting of the interaction
CountIfValid(ec, source, target, pid, nodeNames) ==
    IF ~Truthy(source) \/ ~Truthy(target) \/ source = target THEN ec
    ELSE IF source \notin nodeNames \/ target \notin nodeNames THEN ec
    ELSE CountInteraction(ec, EdgeKey(source, target), pid)

\* One iteration of "Build edges from comment replies"
ReplyStep(ec, c, cs, nodeNames) ==
    IF c.parent_id = NoParent THEN ec
    ELSE IF ~CommentMapHas(cs, c.parent_id) THEN ec
    ELSE CountIfValid(ec, AuthorName(c), AuthorName(CommentMapGet(cs, c.parent_id)),
                      c.post_id, nodeNames)

\* Mutant: the top-level loop does not skip the comments that have a parent_id
TopLevelStepNoParentGuard(ec, c, ps, nodeNames) ==
    IF ~PostMapHas(ps, c.post_id) THEN ec
    ELSE CountIfValid(ec, AuthorName(c), AuthorName(PostMapGet(ps, c.post_id)),
                      c.post_id, nodeNames)

\* One iteration of "edges for top-level comment -> post author"
TopLevelStep(ec, c, ps, nodeNames) ==
    IF c.parent_id # NoParent THEN ec
    ELSE IF ~PostMapHas(ps, c.post_id) THEN ec
    ELSE CountIfValid(ec, AuthorName(c), AuthorName(PostMapGet(ps, c.post_id)),
                      c.post_id, nodeNames)

\* const [source, target] = key.split('->')
SplitSource(key) == <<key[1]>>
SplitTarget(key) == <<key[2]>>

HasEdge(es, s, t) == \E j \in 1..Len(es) : es[j].source = s /\ es[j].target = t

\* graph.addEdge(source, target, attrs) throws on a self-loop that the graph
\* does not allow and on an edge that exists in a graph that is not multi
AddEdgeThrows(es, s, t) ==
    \/ (~GraphAllowSelfLoops /\ s = t)
    \/ (~GraphMulti /\ HasEdge(es, s, t))

\* graph.updateEdgeAttribute(source, target, 'weight', w => (w ?? 0) + data.weight);
\* it throws when there is no such edge, and the inner catch ignores that
UpdateEdgeWeight(es, s, t, w) ==
    [j \in 1..Len(es) |->
        IF es[j].source = s /\ es[j].target = t
        THEN [es[j] EXCEPT !.weight = @ + w]
        ELSE es[j]]

\* One iteration of "Add edges to graph"
AddEdgeStep(es, entry, nodeNames) ==
    LET source == SplitSource(entry.key)
        target == SplitTarget(entry.key)
    IN  IF source \notin nodeNames \/ target \notin nodeNames THEN es
        ELSE IF ~AddEdgeThrows(es, source, target)
             THEN Append(es, [source |-> source, target |-> target,
                              weight |-> entry.weight, types |-> entry.types,
                              posts |-> entry.posts])
             ELSE UpdateEdgeWeight(es, source, target, entry.weight)

\* catch { try { graph.updateEdgeAttribute(...) } catch { /* Ignore */ } }
InnerCatchIgnores == TRUE

\* Whether an exception leaves the try/catch of "Add edges to graph": the
\* outer catch takes what addEdge throws; updateEdgeAttribute throws when the
\* edge does not exist, which the inner catch ignores
AddEdgeEscapes(es, entry, nodeNames) ==
    LET source == SplitSource(entry.key)
        target == SplitTarget(entry.key)
    IN  /\ source \in nodeNames
        /\ target \in nodeNames
        /\ AddEdgeThrows(es, source, target)
        /\ ~HasEdge(es, source, target)
        /\ ~InnerCatchIgnores

\* The loops, run to completion over a list of comments / entries
RECURSIVE ReplyLoop(_, _, _, _, _)
ReplyLoop(ec, loopOver, k, cs, nodeNames) ==
    IF k > Len(loopOver) THEN ec
    ELSE ReplyLoop(ReplyStep(ec, loopOver[k], cs, nodeNames), loopOver, k + 1, cs, nodeNames)

RECURSIVE TopLevelLoop(_, _, _, _, _)
TopLevelLoop(ec, loopOver, k, ps, nodeNames) ==
    IF k > Len(loopOver) THEN ec
    ELSE TopLevelLoop(TopLevelStep(ec, loopOver[k], ps, nodeNames), loopOver, k + 1, ps, nodeNames)

RECURSIVE AddEdgesLoop(_, _, _, _)
AddEdgesLoop(es, ec, k, nodeNames) ==
    IF k > Len(ec) THEN es
    ELSE AddEdgesLoop(AddEdgeStep(es, ec[k], nodeNames), ec, k + 1, nodeNames)

\* ---- the state machine of one buildGraph call ----

\* The parts of the state a specification does not use stay at these values
BuildIdle ==
    /\ posts = << >> /\ comments = << >> /\ agents = << >>
    /\ bpc = "idle" /\ bi = 0 /\ nodes = << >>
    /\ edgeCounts = << >> /\ edges = << >> /\ threw = FALSE

GraphIdle == graph = [n |-> 0, w |-> << >>]

MetricsIdle ==
    /\ mpc = "idle" /\ sampleSize = 0 /\ sources = << >> /\ si = 0
    /\ betweenness = << >> /\ closeness = << >> /\ clustering = << >>

PageRankIdle ==
    /\ prpc = "idle" /\ iter = 0 /\ ranks = << >> /\ rankDen = 1
    /\ newRanks = << >> /\ diff = 0

CommunityIdle ==
    /\ cdpc = "idle" /\ nodeCommunity = << >> /\ improved = FALSE
    /\ iterations = 0 /\ ci = 0 /\ communityMap = << >> /\ modularity = <<0, 1>>

InfluenceIdle ==
    /\ ipc = "idle" /\ attrs = << >> /\ weights = << >>
    /\ scores = << >> /\ profiles = << >>

TierIdle == tpc = "idle" /\ tierRank = 0 /\ tierTotal = 0 /\ tier = "none"

ExportIdle ==
    /\ epc = "idle" /\ config = << >> /\ ei = 0 /\ included = << >>
    /\ bundle = << >>

MainIdle == networkMetrics = << >> /\ firstRun = << >>

LimiterIdle == bucket = << >> /\ now = 0 /\ callers = << >>

CollectorIdle ==
    /\ cpc = "idle" /\ collectorConfig = << >> /\ disk = {} /\ diskBefore = {}
    /\ collected = << >>

CollectorSideIdle == LimiterIdle /\ CollectorIdle

\* None of the scorer, assignTier and selectNodes is running
ScorerIdle == InfluenceIdle /\ TierIdle /\ ExportIdle

InitBuild ==
    /\ ScorerIdle /\ MainIdle /\ CollectorSideIdle
    /\ posts \in PostInputs
    /\ comments \in CommentInputs
    /\ agents \in AgentInputs
    /\ bpc = "nodes"
    /\ bi = 1
    /\ nodes = << >>
    /\ edgeCounts = << >>
    /\ edges = << >>
    /\ threw = FALSE
    /\ GraphIdle
    /\ MetricsIdle
    /\ PageRankIdle
    /\ CommunityIdle

\* lines 11-35: agentSet, agentMap, graph.addNode
AddNodes ==
    /\ bpc = "nodes"
    /\ nodes' = BuildNodes(posts, comments, agents)
    /\ bpc' = "reply"
    /\ bi' = 1
    /\ UNCHANGED <<posts, comments, agents, edgeCounts, edges, threw>>
    /\ UNCHANGED outsideBuild

\* lines 71-97
ReplyIter ==
    /\ bpc = "reply"
    /\ bi <= Len(comments)
    /\ edgeCounts' = ReplyStep(edgeCounts, comments[bi], comments, DOMAIN nodes)
    /\ bi' = bi + 1
    /\ UNCHANGED <<posts, comments, agents, bpc, nodes, edges, threw>>
    /\ UNCHANGED outsideBuild

ReplyDone ==
    /\ bpc = "reply"
    /\ bi > Len(comments)
    /\ bpc' = "toplevel"
    /\ bi' = 1
    /\ UNCHANGED <<posts, comments, agents, nodes, edgeCounts, edges, threw>>
    /\ UNCHANGED outsideBuild

\* lines 100-126
TopLevelIter ==
    /\ bpc = "toplevel"
    /\ bi <= Len(comments)
    /\ edgeCounts' = TopLevelStep(edgeCounts, comments[bi], posts, DOMAIN nodes)
    /\ bi' = bi + 1
    /\ UNCHANGED <<posts, comments, agents, bpc, nodes, edges, threw>>
    /\ UNCHANGED outsideBuild

TopLevelDone ==
    /\ bpc = "toplevel"
    /\ bi > Len(comments)
    /\ bpc' = "edges"
    /\ bi' = 1
    /\ UNCHANGED <<posts, comments, agents, nodes, edgeCounts, edges, threw>>
    /\ UNCHANGED outsideBuild

\* lines 129-147
AddEdgeIter ==
    /\ bpc = "edges"
    /\ bi <= Len(edgeCounts)
    /\ IF AddEdgeEscapes(edges, edgeCounts[bi], DOMAIN nodes)
       THEN /\ threw' = TRUE
            /\ bpc' = "threw"
            /\ UNCHANGED <<edges, bi>>
       ELSE /\ edges' = AddEdgeStep(edges, edgeCounts[bi], DOMAIN nodes)
            /\ bi' = bi + 1
            /\ UNCHANGED <<bpc, threw>>
    /\ UNCHANGED <<posts, comments, agents, nodes, edgeCounts>>
    /\ UNCHANGED outsideBuild

\* line 149: return graph
BuildReturn ==
    /\ bpc = "edges"
    /\ bi > Len(edgeCounts)
    /\ bpc' = "done"
    /\ UNCHANGED <<posts, comments, agents, bi, nodes, edgeCounts, edges, threw>>
    /\ UNCHANGED outsideBuild

NextBuild ==
    \/ AddNodes
    \/ ReplyIter
    \/ ReplyDone
    \/ TopLevelIter
    \/ TopLevelDone
    \/ AddEdgeIter
    \/ BuildReturn

SpecBuild == InitBuild /\ [][NextBuild]_vars

\* ------------------------------------------------------------------------
\* Properties of buildGraph
\* ------------------------------------------------------------------------

BuildDone == bpc = "done"

\* Some pair of entries of edgeCounts splits to the same (source, target),
\* both nodes: the second addEdge throws and the weight is updated instead
SplitCollision ==
    \E j, k \in 1..Len(edgeCounts) :
        /\ j # k
        /\ SplitSource(edgeCounts[j].key) = SplitSource(edgeCounts[k].key)
        /\ SplitTarget(edgeCounts[j].key) = SplitTarget(edgeCounts[k].key)
        /\ SplitSource(edgeCounts[j].key) \in DOMAIN nodes
        /\ SplitTarget(edgeCounts[j].key) \in DOMAIN nodes

\* Some entry of edgeCounts splits to a self-loop on a node
SplitSelfLoop ==
    \E j \in 1..Len(edgeCounts) :
        /\ SplitSource(edgeCounts[j].key) = SplitTarget(edgeCounts[j].key)
        /\ SplitSource(edgeCounts[j].key) \in DOMAIN nodes

\* C1: the graph buildGraph returns is a simple directed graph: at most one
\* edge per ordered pair (source, target), no edge with source = target, and
\* both endpoints of every edge are nodes of the graph.
C1_SimpleGraph ==
    BuildDone =>
        /\ \A j, k \in 1..Len(edges) :
              (edges[j].source = edges[k].source /\ edges[j].target = edges[k].target)
                 => j = k
        /\ \A j \in 1..Len(edges) :
              /\ edges[j].source # edges[j].target
              /\ edges[j].source \in DOMAIN nodes
              /\ edges[j].target \in DOMAIN nodes

\* C1 witness: a finished build with an edge, in which two entries of
\* edgeCounts named the same pair of nodes
C1_Witness == BuildDone /\ Len(edges) >= 1 /\ SplitCollision

\* C1 witness of the self-loop case (kept for the coverage of the catch path)
C1_SelfLoopReached == BuildDone /\ SplitSelfLoop

\* The number of comments that are an interaction from s to t
IsInteraction(c, s, t) ==
    /\ AuthorName(c) = s
    /\ \/ /\ c.parent_id # NoParent
          /\ CommentMapHas(comments, c.parent_id)
          /\ AuthorName(CommentMapGet(comments, c.parent_id)) = t
       \/ /\ c.parent_id = NoParent
          /\ PostMapHas(posts, c.post_id)
          /\ AuthorName(PostMapGet(posts, c.post_id)) = t

Interactions(s, t) == Cardinality({ k \in 1..Len(comments) : IsInteraction(comments[k], s, t) })

EdgeWeight(s, t) ==
    IF HasEdge(edges, s, t)
    THEN (edges[CHOOSE j \in 1..Len(edges) : edges[j].source = s /\ edges[j].target = t]).weight
    ELSE 0

\* C2: for every ordered pair of distinct names (s, t), names containing
\* "->" included, the weight of edge s->t in the returned graph is the number
\* of comments that are an interaction from s to t, and the edge is absent
\* exactly when that number is 0.
C2_WeightIsInteractionCount ==
    BuildDone =>
        \A s, t \in NameDomain :
            s # t => /\ EdgeWeight(s, t) = Interactions(s, t)
                     /\ HasEdge(edges, s, t) <=> Interactions(s, t) > 0

Malformed(c) ==
    \/ c.author = NullAuthor
    \/ /\ c.parent_id # NoParent
       /\ ~CommentMapHas(comments, c.parent_id)
    \/ /\ c.parent_id # NoParent
       /\ CommentMapHas(comments, c.parent_id)
       /\ CommentMapGet(comments, c.parent_id).author = NullAuthor
    \/ /\ c.parent_id = NoParent
       /\ PostMapHas(posts, c.post_id)
       /\ PostMapGet(posts, c.post_id).author = NullAuthor

WellFormedComments == SelectSeq(comments, LAMBDA c : ~Malformed(c))

\* The edges of a build whose two comment loops run over the list `loopOver`,
\* with the lookup maps and the nodes built from the lists cs, ps, as
EdgesOf(loopOver, ps, cs, as) ==
    LET names == AgentSet(ps, cs, as)
        ec == TopLevelLoop(ReplyLoop(<< >>, loopOver, 1, cs, names), loopOver, 1, ps, names)
    IN  AddEdgesLoop(<< >>, ec, 1, names)

\* C4 as stated: no exception escapes, and the returned edges are those of
\* the input from which the malformed comment records have been removed.
C4_AsIfAbsent ==
    /\ ~threw
    /\ BuildDone => edges = EdgesOf(WellFormedComments, posts, WellFormedComments, agents)

\* C4 as amended: no exception escapes, and the returned edges are those of
\* a run whose edge loops skip the malformed comment records (which stay in
\* the comment map, as parents of their replies, and whose authors stay
\* nodes): a malformed record contributes no edge and every other record
\* contributes the edge it contributes in the full batch.
C4_SkipAndContinue ==
    /\ ~threw
    /\ BuildDone => edges = EdgesOf(WellFormedComments, posts, comments, agents)

\* C4 witness: a finished build of a batch that holds a malformed comment and
\* a well-formed one that made an edge
C4_Witness ==
    /\ BuildDone
    /\ Len(edges) >= 1
    /\ \E k \in 1..Len(comments) : Malformed(comments[k])
    /\ \E k \in 1..Len(comments) : comments[k].author = NullAuthor

\* ------------------------------------------------------------------------
\* Exact rationals <<numerator, denominator>>, in lowest terms, for the
\* program's floating-point numbers
\* ------------------------------------------------------------------------

RECURSIVE GCD(_, _)
GCD(a, b) == IF b = 0 THEN a ELSE GCD(b, a % b)

RNorm(n, d) ==
    LET g == GCD(IF n < 0 THEN -n ELSE n, d)
    IN  <<n \div g, d \div g>>

RZero == <<0, 1>>
ROne == <<1, 1>>
RAdd(x, y) == RNorm(x[1] * y[2] + y[1] * x[2], x[2] * y[2])
RMul(x, y) == RNorm(x[1] * y[1], x[2] * y[2])
RIsZero(x) == x[1] = 0
RPositive(x) == x[1] > 0
RNonNegative(x) == x[1] >= 0

\* ------------------------------------------------------------------------
\* The analyzed graph
\* ------------------------------------------------------------------------

\* Largest number of nodes and of edges of a graph given to the metrics
MaxNodes == 4
MaxEdges == 6

Nodes(g) == 1..g.n
Edges(g) == DOMAIN g.w
OutNeighbors(g, v) == { w \in Nodes(g) : <<v, w>> \in Edges(g) }
InNeighbors(g, v) == { u \in Nodes(g) : <<u, v>> \in Edges(g) }
\* Neighbors that follow out-edges only
NeighborsOutOnly(g, v) == OutNeighbors(g, v)

\* graph.neighbors(node): in- and out-neighbors together
Neighbors(g, v) == InNeighbors(g, v) \cup OutNeighbors(g, v)
OutDegree(g, v) == Cardinality(OutNeighbors(g, v))

\* The ordered pairs a directed graph without self-loops may join
AllPairs(n) == { p \in (1..n) \X (1..n) : p[1] # p[2] }

\* g is a directed simple graph within the bounds, all weights 1
IsUnitGraph(g) ==
    \E n \in 0..MaxNodes : \E E \in SUBSET AllPairs(n) :
        /\ Cardinality(E) <= MaxEdges
        /\ g = [n |-> n, w |-> [e \in E |-> 1]]

\* A set of nodes in iteration order
RECURSIVE SortedSeq(_)
SortedSeq(S) ==
    IF S = {} THEN << >>
    ELSE LET m == CHOOSE x \in S : \A y \in S : x <= y
         IN  <<m>> \o SortedSeq(S \ {m})

\* ------------------------------------------------------------------------
\* calculateBetweenness
\* ------------------------------------------------------------------------

\* calculateAllMetrics: N > 1000 ? Math.min(200, N) : undefined
SampleThreshold == 1000
SampleCap == 200
SampleSizeFor(n) ==
    IF n > SampleThreshold THEN (IF SampleCap < n THEN SampleCap ELSE n) ELSE 0

\* The samples drawn start at one of this many nodes
SampleStarts == 2

\* sampleSize && sampleSize < N ? shuffleArray(nodes).slice(0, sampleSize) : nodes
\* (the shuffle draws at random and can return any arrangement of any
\* sampleSize nodes; of these the runs of sampleSize consecutive nodes that
\* start at one of the first SampleStarts nodes are drawn here)
SourceChoices(g, ss) ==
    IF ss # 0 /\ ss < g.n
    THEN { [i \in 1..ss |-> ((start + i - 2) % g.n) + 1] : start \in 1..SampleStarts }
    ELSE { [i \in 1..g.n |-> i] }

\* pred, sigma, dist and the queue holding s
BrandesInit(g, s) ==
    [queue |-> <<s>>, stack |-> << >>,
     pred  |-> [v \in Nodes(g) |-> << >>],
     sigma |-> [v \in Nodes(g) |-> IF v = s THEN 1 ELSE 0],
     dist  |-> [v \in Nodes(g) |-> IF v = s THEN 0 ELSE -1]]

\* The body of graph.forEachOutNeighbor(v, (w) => ...)
VisitOut(st, v, w) ==
    LET st1 == IF st.dist[w] < 0
               THEN [st EXCEPT !.queue = Append(@, w), !.dist[w] = st.dist[v] + 1]
               ELSE st
    IN  IF st1.dist[w] = st1.dist[v] + 1
        THEN [st1 EXCEPT !.sigma[w] = @ + st1.sigma[v], !.pred[w] = Append(@, v)]
        ELSE st1

RECURSIVE VisitAllOut(_, _, _, _)
VisitAllOut(st, v, ws, k) ==
    IF k > Len(ws) THEN st
    ELSE VisitAllOut(VisitOut(st, v, ws[k]), v, ws, k + 1)

\* while (queue.length > 0) { v = queue.shift(); stack.push(v); ... }
RECURSIVE ShortestPaths(_, _)
ShortestPaths(g, st) ==
    IF st.queue = << >> THEN st
    ELSE LET v == Head(st.queue)
             st1 == [st EXCEPT !.queue = Tail(@), !.stack = Append(@, v)]
         IN  ShortestPaths(g, VisitAllOut(st1, v, SortedSeq(OutNeighbors(g, v)), 1))

\* for (const v of pred.get(w)) { d = sigma(v)/sigma(w) * (1 + delta(w)); delta(v) += d }
RECURSIVE AccumulatePreds(_, _, _, _, _)
AccumulatePreds(delta, sigma, w, ps, k) ==
    IF k > Len(ps) THEN delta
    ELSE LET v == ps[k]
             d == RMul(RNorm(sigma[v], sigma[w]), RAdd(ROne, delta[w]))
         IN  AccumulatePreds([delta EXCEPT ![v] = RAdd(@, d)], sigma, w, ps, k + 1)

\* Mutant: the source is credited with its own dependency
CreditEveryNode(bet, w, s, d) == [bet EXCEPT ![w] = RAdd(@, d)]

\* if (w !== s) betweenness.set(w, betweenness.get(w) + delta.get(w))
CreditNode(bet, w, s, d) ==
    IF w # s THEN [bet EXCEPT ![w] = RAdd(@, d)] ELSE bet

\* while (stack.length > 0) { w = stack.pop(); ... }
RECURSIVE Accumulate(_, _, _, _, _)
Accumulate(stack, delta, bet, st, s) ==
    IF stack = << >> THEN bet
    ELSE LET w == stack[Len(stack)]
             delta1 == AccumulatePreds(delta, st.sigma, w, st.pred[w], 1)
         IN  Accumulate(SubSeq(stack, 1, Len(stack) - 1), delta1,
                        CreditNode(bet, w, s, delta1[w]), st, s)

\* One iteration of "for (const s of sources)"
BrandesSource(g, bet, s) ==
    LET st == ShortestPaths(g, BrandesInit(g, s))
    IN  Accumulate(st.stack, [v \in Nodes(g) |-> RZero], bet, st, s)

\* scaleFactor, and the normalization by 1/((N-1)(N-2)) when N > 2
NormalizeBetweenness(g, bet, nSources) ==
    LET scale == IF nSources < g.n THEN RNorm(g.n, nSources) ELSE ROne
    IN  IF g.n > 2
        THEN [v \in Nodes(g) |->
                RMul(RMul(bet[v], RNorm(1, (g.n - 1) * (g.n - 2))), scale)]
        ELSE bet

\* ------------------------------------------------------------------------
\* calculateCloseness
\* ------------------------------------------------------------------------

\* The body of graph.forEachOutNeighbor(v, (w) => ...), d = dist.get(v)
CloseVisit(st, d, w) ==
    IF w \notin DOMAIN st.dist
    THEN [queue |-> Append(st.queue, w),
          dist |-> (w :> d + 1) @@ st.dist,
          totalDist |-> st.totalDist + d + 1,
          reachable |-> st.reachable + 1]
    ELSE st

RECURSIVE CloseVisitAll(_, _, _, _)
CloseVisitAll(st, d, ws, k) ==
    IF k > Len(ws) THEN st
    ELSE CloseVisitAll(CloseVisit(st, d, ws[k]), d, ws, k + 1)

RECURSIVE CloseBFS(_, _)
CloseBFS(g, st) ==
    IF st.queue = << >> THEN st
    ELSE LET v == Head(st.queue)
         IN  CloseBFS(g, CloseVisitAll([st EXCEPT !.queue = Tail(@)], st.dist[v],
                                       SortedSeq(OutNeighbors(g, v)), 1))

\* Mutant: the source counts as reachable from itself, one step away
ClosenessValuePlusOne(reachable, totalDist) == RNorm(reachable + 1, totalDist + 1)

\* reachable > 0 ? reachable / totalDist : 0
ClosenessValue(reachable, totalDist) ==
    IF reachable > 0 THEN RNorm(reachable, totalDist) ELSE RZero

\* One iteration of "for (const s of nodes)"
ClosenessOf(g, s) ==
    LET st == CloseBFS(g, [queue |-> <<s>>, dist |-> (s :> 0),
                           totalDist |-> 0, reachable |-> 0])
    IN  ClosenessValue(st.reachable, st.totalDist)

\* ------------------------------------------------------------------------
\* calculateClustering
\* ------------------------------------------------------------------------

\* Mutant: the undirected formula, 2 * triangles / (k (k - 1))
ClusteringRatioUndirected(triangles, k) == RNorm(2 * triangles, k * (k - 1))

\* triangles / (k * (k - 1))
ClusteringRatio(triangles, k) == RNorm(triangles, k * (k - 1))

\* The body of graph.forEachNode((node) => ...)
ClusteringOf(g, v) ==
    LET neighbors == Neighbors(g, v)
        k == Cardinality(neighbors)
    IN  IF k < 2 THEN RZero
        ELSE ClusteringRatio(
                Cardinality({ p \in neighbors \X neighbors :
                                p[1] # p[2] /\ <<p[1], p[2]>> \in Edges(g) }), k)

\* ---- the state machine of the three metric functions, run in the order
\* ---- calculateAllMetrics runs them

InitMetrics ==
    /\ ScorerIdle /\ MainIdle /\ CollectorSideIdle
    /\ BuildIdle
    /\ PageRankIdle
    /\ CommunityIdle
    /\ IsUnitGraph(graph)
    /\ mpc = "betweenness"
    /\ sampleSize = SampleSizeFor(graph.n)
    /\ sources = << >>
    /\ si = 0
    /\ betweenness = << >>
    /\ closeness = << >>
    /\ clustering = << >>

\* calculateBetweenness lines 54-64
BetweennessStart ==
    /\ mpc = "betweenness"
    /\ betweenness' = [v \in Nodes(graph) |-> RZero]
    /\ sources' \in SourceChoices(graph, sampleSize)
    /\ si' = 1
    /\ mpc' = "brandes"
    /\ UNCHANGED <<graph, sampleSize, closeness, clustering>>
    /\ UNCHANGED outsideMetrics

\* calculateBetweenness lines 66-111
BrandesIter ==
    /\ mpc = "brandes"
    /\ si <= Len(sources)
    /\ betweenness' = BrandesSource(graph, betweenness, sources[si])
    /\ si' = si + 1
    /\ UNCHANGED <<graph, mpc, sampleSize, sources, closeness, clustering>>
    /\ UNCHANGED outsideMetrics

\* calculateBetweenness lines 113-122
BetweennessReturn ==
    /\ mpc = "brandes"
    /\ si > Len(sources)
    /\ betweenness' = NormalizeBetweenness(graph, betweenness, Len(sources))
    /\ mpc' = "closeness"
    /\ si' = 1
    /\ UNCHANGED <<graph, sampleSize, sources, closeness, clustering>>
    /\ UNCHANGED outsideMetrics

\* calculateCloseness lines 132-155
ClosenessIter ==
    /\ mpc = "closeness"
    /\ si <= graph.n
    /\ closeness' = (si :> ClosenessOf(graph, si)) @@ closeness
    /\ si' = si + 1
    /\ UNCHANGED <<graph, mpc, sampleSize, sources, betweenness, clustering>>
    /\ UNCHANGED outsideMetrics

\* calculateCloseness line 157
ClosenessReturn ==
    /\ mpc = "closeness"
    /\ si > graph.n
    /\ mpc' = "clustering"
    /\ UNCHANGED <<graph, sampleSize, sources, si, betweenness, closeness, clustering>>
    /\ UNCHANGED outsideMetrics

\* calculateClustering lines 163-188
ClusteringAll ==
    /\ mpc = "clustering"
    /\ clustering' = [v \in Nodes(graph) |-> ClusteringOf(graph, v)]
    /\ mpc' = "done"
    /\ UNCHANGED <<graph, sampleSize, sources, si, betweenness, closeness>>
    /\ UNCHANGED outsideMetrics

NextMetrics ==
    \/ BetweennessStart
    \/ BrandesIter
    \/ BetweennessReturn
    \/ ClosenessIter
    \/ ClosenessReturn
    \/ ClusteringAll

SpecMetrics == InitMetrics /\ [][NextMetrics]_vars

\* ------------------------------------------------------------------------
\* Properties of the metrics
\* ------------------------------------------------------------------------

BetweennessFinal == mpc \in {"closeness", "clustering", "done"}
MetricsDone == mpc = "done"

\* The graph is one directed path through all its nodes, path[1] -> ... -> path[n]
IsPathAlong(g, path) ==
    /\ \A i, j \in 1..g.n : path[i] = path[j] => i = j
    /\ Edges(g) = { <<path[i], path[i + 1]>> : i \in 1..(g.n - 1) }

Arrangements(g) == [1..g.n -> Nodes(g)]

\* C5: on a graph that is a directed path of at least 3 nodes, betweenness
\* is 0 at the two end nodes and strictly positive at every interior node.
C5_PathBetweenness ==
    (BetweennessFinal /\ graph.n >= 3 /\ Cardinality(Edges(graph)) = graph.n - 1) =>
        \A path \in Arrangements(graph) :
            IsPathAlong(graph, path) =>
                /\ RIsZero(betweenness[path[1]])
                /\ RIsZero(betweenness[path[graph.n]])
                /\ \A i \in 2..(graph.n - 1) : RPositive(betweenness[path[i]])

\* C5 witness: the betweenness of the chain D -> C -> B -> A (4 nodes, in an
\* order that is not the node order) has been computed
C5_Witness ==
    /\ BetweennessFinal
    /\ graph.n = 4
    /\ IsPathAlong(graph, <<4, 2, 3, 1>>)
    /\ RPositive(betweenness[2])
    /\ RPositive(betweenness[3])

Isolated(g, v) == Neighbors(g, v) = {}

\* C6: betweenness and closeness are >= 0 at every node of every graph, and
\* exactly 0 at a node that has no incident edge.
C6_NonNegative ==
    MetricsDone =>
        \A v \in Nodes(graph) :
            /\ RNonNegative(betweenness[v]) /\ betweenness[v][2] > 0
            /\ RNonNegative(closeness[v]) /\ closeness[v][2] > 0
            /\ Isolated(graph, v) => (RIsZero(betweenness[v]) /\ RIsZero(closeness[v]))

\* C6 witness: a graph with an isolated node beside nodes of positive
\* betweenness and positive closeness
C6_Witness ==
    /\ MetricsDone
    /\ \E v \in Nodes(graph) : Isolated(graph, v)
    /\ \E v \in Nodes(graph) : RPositive(betweenness[v])
    /\ \E v \in Nodes(graph) : RPositive(closeness[v])

\* a, b, c are joined by all six directed edges
CompleteTriangle(g, a, b, c) ==
    /\ a # b /\ b # c /\ a # c
    /\ { <<a, b>>, <<b, a>>, <<a, c>>, <<c, a>>, <<b, c>>, <<c, b>> } \subseteq Edges(g)

\* C8: the clustering coefficient is 1 at every node of a complete triangle
\* (three nodes joined in both directions, the node's whole neighborhood) and
\* 0 at every node with fewer than 2 neighbors (in- and out-neighbors together).
C8_Clustering ==
    MetricsDone =>
        /\ \A a, b, c \in Nodes(graph) :
              (CompleteTriangle(graph, a, b, c) /\ Neighbors(graph, a) = {b, c})
                 => clustering[a] = ROne
        /\ \A v \in Nodes(graph) :
              Cardinality(Neighbors(graph, v)) < 2 => clustering[v] = RZero

\* C8 witness: the clustering of the complete triangle on 3 nodes is computed
C8_Witness ==
    /\ MetricsDone
    /\ \E a, b, c \in Nodes(graph) :
          /\ CompleteTriangle(graph, a, b, c)
          /\ Neighbors(graph, a) = {b, c}
          /\ Neighbors(graph, b) = {a, c}
    /\ graph.n = 3

\* ------------------------------------------------------------------------
\* calculatePageRank
\* ------------------------------------------------------------------------

\* Largest graph and largest `iterations` option given to calculatePageRank
\* (the option's default is 100)
PRMaxNodes == 3
PRMaxIterations == 3

\* damping = 0.85 = 17/20
DampingNum == 17
DampingDen == 20

\* tolerance = 1e-6 = 1 / 1000000
ToleranceInverse == 1000000

LCM(a, b) == (a * b) \div GCD(a, b)

RECURSIVE LcmOver(_)
LcmOver(S) ==
    IF S = {} THEN 1
    ELSE LET x == CHOOSE y \in S : TRUE IN LCM(x, LcmOver(S \ {x}))

\* The least common multiple of the out-degrees that divide a rank
OutLcm(g) == LcmOver({ OutDegree(g, u) : u \in { x \in Nodes(g) : OutDegree(g, x) > 0 } })

\* The denominator of the ranks of the next iteration
NextDen(g, den) == den * DampingDen * OutLcm(g)

RECURSIVE SumOver(_, _)
SumOver(f, S) ==
    IF S = {} THEN 0
    ELSE LET x == CHOOSE y \in S : TRUE IN f[x] + SumOver(f, S \ {x})

\* sum += ranks.get(source) / outDeg over the in-edges whose source has
\* outDeg > 0, as a numerator over den * OutLcm(g)
InSum(g, r, v) ==
    LET share == [u \in InNeighbors(g, v) |->
                    IF OutDegree(g, u) > 0 THEN r[u] * (OutLcm(g) \div OutDegree(g, u)) ELSE 0]
    IN  SumOver(share, InNeighbors(g, v))

\* Mutant: the teleport term is (1 - damping), not (1 - damping) / N
NewRankNoDivision(g, r, den, v) ==
    (DampingDen - DampingNum) * OutLcm(g) * den + DampingNum * InSum(g, r, v)

\* newRank = (1 - damping) / N + damping * sum, as a numerator over NextDen
NewRank(g, r, den, v) ==
    (DampingDen - DampingNum) * OutLcm(g) * (den \div g.n) + DampingNum * InSum(g, r, v)

Abs(x) == IF x < 0 THEN -x ELSE x

\* diff += Math.abs(newRank - ranks.get(node)), as a numerator over NextDen
RankDiff(g, r, nr) ==
    SumOver([v \in Nodes(g) |-> Abs(nr[v] - r[v] * DampingDen * OutLcm(g))], Nodes(g))

\* diff < tolerance
Converged(d, den) == d <= (den - 1) \div ToleranceInverse

\* g is a directed simple graph on at most PRMaxNodes nodes
IsPageRankGraph(g) ==
    \E n \in 0..PRMaxNodes : \E E \in SUBSET AllPairs(n) :
        g = [n |-> n, w |-> [e \in E |-> 1]]

InitPageRank ==
    /\ ScorerIdle /\ MainIdle /\ CollectorSideIdle
    /\ BuildIdle
    /\ MetricsIdle
    /\ CommunityIdle
    /\ IsPageRankGraph(graph)
    /\ prpc = "start"
    /\ iter = 0
    /\ ranks = << >>
    /\ rankDen = 1
    /\ newRanks = << >>
    /\ diff = 0

\* lines 13-21
PRStart ==
    /\ prpc = "start"
    /\ IF graph.n = 0
       THEN /\ prpc' = "done"
            /\ UNCHANGED <<ranks, rankDen>>
       ELSE /\ prpc' = "loop"
            /\ ranks' = [v \in Nodes(graph) |-> 1]
            /\ rankDen' = graph.n
    /\ UNCHANGED <<graph, iter, newRanks, diff>>
    /\ UNCHANGED outsidePageRank

\* lines 23-40: one pass of the inner loop over the nodes
PRCompute ==
    /\ prpc = "loop"
    /\ iter < PRMaxIterations
    /\ newRanks' = [v \in Nodes(graph) |-> NewRank(graph, ranks, rankDen, v)]
    /\ diff' = RankDiff(graph, ranks, newRanks')
    /\ prpc' = "computed"
    /\ UNCHANGED <<graph, iter, ranks, rankDen>>
    /\ UNCHANGED outsidePageRank

\* lines 42-43: ranks = newRanks; if (diff < tolerance) break; iter++
PRCommit ==
    /\ prpc = "computed"
    /\ ranks' = newRanks
    /\ rankDen' = NextDen(graph, rankDen)
    /\ iter' = iter + 1
    /\ prpc' = IF Converged(diff, NextDen(graph, rankDen)) THEN "done" ELSE "loop"
    /\ UNCHANGED <<graph, newRanks, diff>>
    /\ UNCHANGED outsidePageRank

\* line 23 (iter < iterations fails) and line 46
PRReturn ==
    /\ prpc = "loop"
    /\ iter >= PRMaxIterations
    /\ prpc' = "done"
    /\ UNCHANGED <<graph, iter, ranks, rankDen, newRanks, diff>>
    /\ UNCHANGED outsidePageRank

NextPageRank ==
    \/ PRStart
    \/ PRCompute
    \/ PRCommit
    \/ PRReturn

SpecPageRank == InitPageRank /\ [][NextPageRank]_vars

\* ------------------------------------------------------------------------
\* Properties of calculatePageRank
\* ------------------------------------------------------------------------

Dangling(g) == { u \in Nodes(g) : OutDegree(g, u) = 0 }

RankSum == SumOver(ranks, Nodes(graph))

\* C7: with no node of out-degree 0 the ranks sum to 1 after every power
\* iteration; with such a node the sum never exceeds 1 (it is below 1 after
\* every iteration) and the rank of the dangling nodes is not redistributed:
\* the new ranks sum to (1 - d) + d * (the old rank of the other nodes).
C7_RankMass ==
    (prpc \in {"loop", "computed", "done"} /\ graph.n > 0) =>
        /\ Dangling(graph) = {} => RankSum = rankDen
        /\ RankSum <= rankDen
        /\ (Dangling(graph) # {} /\ iter >= 1) => RankSum < rankDen
        /\ prpc = "computed" =>
              SumOver(newRanks, Nodes(graph)) =
                 OutLcm(graph) * ((DampingDen - DampingNum) * rankDen
                    + DampingNum * SumOver(ranks, Nodes(graph) \ Dangling(graph)))

\* C7 witness: two iterations done on a graph without dangling node whose
\* ranks are not all equal
C7_Witness ==
    /\ prpc = "done"
    /\ iter >= 2
    /\ graph.n = 3
    /\ Dangling(graph) = {}
    /\ \E u, v \in Nodes(graph) : ranks[u] # ranks[v]

\* Two iterations done on a graph with a dangling node and an edge
C7_DanglingReached ==
    /\ prpc = "done"
    /\ iter >= 2
    /\ Dangling(graph) # {}
    /\ Edges(graph) # {}

\* ------------------------------------------------------------------------
\* detectCommunities, renumberCommunities, calculateModularity
\* ------------------------------------------------------------------------

\* Largest graph given to the community detector, and the size of each of
\* the two cliques of the two-clique graphs
CDMaxNodes == 4
CDMaxEdges == 3
CliqueSize == 3

\* The edge weights of the inputs
CDWeights == {1, 2}

\* const maxIterations = 50
MaxIterations == 50

\* totalWeight: the sum of attrs.weight over graph.forEachEdge
TotalWeight(g) == SumOver(g.w, Edges(g))

\* The edges graph.forEachEdge(node, ...) visits: the in- and out-edges of node
IncidentEdges(g, v) == { e \in Edges(g) : e[1] = v \/ e[2] = v }

\* weightedDegree.get(node)
WeightedDegree(g, v) == SumOver(g.w, IncidentEdges(g, v))

\* const neighbor = source === node ? target : source
OtherEnd(e, v) == IF e[1] = v THEN e[2] ELSE e[1]

\* neighborCommunities: community -> summed weight of the node's edges into it
NeighborCommunities(g, nc, v) ==
    [com \in { nc[OtherEnd(e, v)] : e \in IncidentEdges(g, v) } |->
        SumOver(g.w, { e \in IncidentEdges(g, v) : nc[OtherEnd(e, v)] = com })]

\* getCommunityTotalDegree
CommunityTotalDegree(g, nc, com) ==
    SumOver([u \in Nodes(g) |-> WeightedDegree(g, u)], { u \in Nodes(g) : nc[u] = com })

\* deltaQ of moving node v to community com, times m2 * m2 (an integer of the
\* same sign)
DeltaQ(g, nc, v, com) ==
    LET m2 == TotalWeight(g) * 2
        ki == WeightedDegree(g, v)
        nbc == NeighborCommunities(g, nc, v)
        kiIn == IF nc[v] \in DOMAIN nbc THEN nbc[nc[v]] ELSE 0
        sigmaTotCurrent == CommunityTotalDegree(g, nc, nc[v])
        sigmaTotNew == CommunityTotalDegree(g, nc, com)
    IN  (nbc[com] * m2 - sigmaTotNew * ki) - (kiIn * m2 - (sigmaTotCurrent - ki) * ki)

\* A local move that never leaves the current community
BestCommunitiesStay(g, nc, v) == {nc[v]}

\* A local move that may enter any community in use
BestCommunitiesAnywhere(g, nc, v) == { nc[u] : u \in Nodes(g) }

\* The values bestCom may end with: the loop keeps the first community, in
\* the iteration order of neighborCommunities, whose deltaQ is the largest and
\* positive.  That order is the graph library's edge order, so every
\* community of largest deltaQ can be the first.
BestCommunities(g, nc, v) ==
    LET others == (DOMAIN NeighborCommunities(g, nc, v)) \ {nc[v]}
        positive == { com \in others : DeltaQ(g, nc, v, com) > 0 }
    IN  IF positive = {} THEN {nc[v]}
        ELSE { com \in positive :
                 \A other \in positive : DeltaQ(g, nc, v, other) <= DeltaQ(g, nc, v, com) }

\* renumberCommunities: ids in the order of first appearance over the map
RECURSIVE RenumberLoop(_, _, _, _, _)
RenumberLoop(nc, n, k, mapping, result) ==
    IF k > n THEN result
    ELSE LET com == nc[k]
             mapping1 == IF com \in DOMAIN mapping THEN mapping
                         ELSE (com :> Cardinality(DOMAIN mapping)) @@ mapping
         IN  RenumberLoop(nc, n, k + 1, mapping1, (k :> mapping1[com]) @@ result)

\* A detector that returns the map without renumbering it
RenumberCommunitiesSkipped(nc, n) == nc

RenumberCommunities(nc, n) == RenumberLoop(nc, n, 1, << >>, << >>)

\* calculateModularity
CalculateModularity(g, com) ==
    IF TotalWeight(g) = 0 THEN RZero
    ELSE LET m2 == TotalWeight(g) * 2
             same == { e \in Edges(g) : com[e[1]] = com[e[2]] }
             term == [e \in same |->
                        g.w[e] * m2 - WeightedDegree(g, e[1]) * WeightedDegree(g, e[2])]
         IN  RNorm(SumOver(term, same), m2 * m2)

\* g is a weighted directed simple graph within the bounds
IsSmallWeightedGraph(g) ==
    \E n \in 0..CDMaxNodes : \E E \in SUBSET AllPairs(n) :
        /\ Cardinality(E) <= CDMaxEdges
        /\ \E w \in [E -> CDWeights] : g = [n |-> n, w |-> w]

\* The pairs inside a set of nodes
PairsWithin(A) == { p \in A \X A : p[1] # p[2] }

\* g is two disconnected cliques of CliqueSize nodes each (every ordered pair
\* inside a clique is an edge, all of one weight), the nodes in any order
IsTwoCliques(g) ==
    \E A \in SUBSET (1..(2 * CliqueSize)) : \E wt \in CDWeights :
        /\ 1 \in A
        /\ Cardinality(A) = CliqueSize
        /\ g = [n |-> 2 * CliqueSize,
                w |-> [e \in PairsWithin(A) \cup PairsWithin((1..(2 * CliqueSize)) \ A) |-> wt]]

InitCommunity ==
    /\ ScorerIdle /\ MainIdle /\ CollectorSideIdle
    /\ BuildIdle
    /\ MetricsIdle
    /\ PageRankIdle
    /\ (IsSmallWeightedGraph(graph) \/ IsTwoCliques(graph))
    /\ cdpc = "start"
    /\ nodeCommunity = << >>
    /\ improved = FALSE
    /\ iterations = 0
    /\ ci = 0
    /\ communityMap = << >>
    /\ modularity = RZero

\* lines 183-215: an empty graph and a graph of total weight 0 return at once
CDStart ==
    /\ cdpc = "start"
    /\ nodeCommunity' = [v \in Nodes(graph) |-> v - 1]
    /\ IF graph.n = 0 \/ TotalWeight(graph) = 0
       THEN /\ communityMap' = [v \in Nodes(graph) |-> v - 1]
            /\ cdpc' = "done"
            /\ UNCHANGED improved
       ELSE /\ improved' = TRUE
            /\ cdpc' = "while"
            /\ UNCHANGED communityMap
    /\ UNCHANGED <<graph, iterations, ci, modularity>>
    /\ UNCHANGED outsideCommunity

\* lines 217-219: the while condition holds
CDPassBegin ==
    /\ cdpc = "while"
    /\ improved /\ iterations < MaxIterations
    /\ improved' = FALSE
    /\ iterations' = iterations + 1
    /\ ci' = 1
    /\ cdpc' = "for"
    /\ UNCHANGED <<graph, nodeCommunity, communityMap, modularity>>
    /\ UNCHANGED outsideCommunity

\* lines 221-268: one node of the for loop
CDMoveNode ==
    /\ cdpc = "for"
    /\ ci <= graph.n
    /\ \E bestCom \in BestCommunities(graph, nodeCommunity, ci) :
          IF bestCom # nodeCommunity[ci]
          THEN /\ nodeCommunity' = [nodeCommunity EXCEPT ![ci] = bestCom]
               /\ improved' = TRUE
          ELSE UNCHANGED <<nodeCommunity, improved>>
    /\ ci' = ci + 1
    /\ UNCHANGED <<graph, cdpc, iterations, communityMap, modularity>>
    /\ UNCHANGED outsideCommunity

\* line 268: the for loop is over
CDPassEnd ==
    /\ cdpc = "for"
    /\ ci > graph.n
    /\ cdpc' = "while"
    /\ UNCHANGED <<graph, nodeCommunity, improved, iterations, ci, communityMap, modularity>>
    /\ UNCHANGED outsideCommunity

\* lines 217, 271-272: the while condition fails
CDReturn ==
    /\ cdpc = "while"
    /\ ~(improved /\ iterations < MaxIterations)
    /\ communityMap' = RenumberCommunities(nodeCommunity, graph.n)
    /\ cdpc' = "done"
    /\ UNCHANGED <<graph, nodeCommunity, improved, iterations, ci, modularity>>
    /\ UNCHANGED outsideCommunity

\* calculateModularity(graph, communityMap)
ModularityCall ==
    /\ cdpc = "done"
    /\ modularity' = CalculateModularity(graph, communityMap)
    /\ cdpc' = "scored"
    /\ UNCHANGED <<graph, nodeCommunity, improved, iterations, ci, communityMap>>
    /\ UNCHANGED outsideCommunity

NextCommunity ==
    \/ CDStart
    \/ CDPassBegin
    \/ CDMoveNode
    \/ CDPassEnd
    \/ CDReturn
    \/ ModularityCall

SpecCommunity == InitCommunity /\ [][NextCommunity]_vars

\* ------------------------------------------------------------------------
\* Properties of the community detector
\* ------------------------------------------------------------------------

CommunityIds == { communityMap[v] : v \in Nodes(graph) }

Members(id) == { v \in Nodes(graph) : communityMap[v] = id }

\* The clique of node 1 in a two-clique graph
FirstClique == {1} \cup Neighbors(graph, 1)

\* The detector returned exactly two communities, one per clique
OnePerClique ==
    /\ Cardinality(CommunityIds) = 2
    /\ \A u, v \in Nodes(graph) :
          communityMap[u] = communityMap[v] <=> (u \in FirstClique <=> v \in FirstClique)

\* C9: on two disconnected cliques of equal size (at least 3 nodes each)
\* detectCommunities returns exactly 2 communities, one per clique, and
\* calculateModularity of that partition is about 0.5 (here: within 0.05).
C9_TwoCliques ==
    (cdpc = "scored" /\ IsTwoCliques(graph)) =>
        /\ OnePerClique
        /\ 20 * modularity[1] >= 9 * modularity[2]
        /\ 20 * modularity[1] <= 11 * modularity[2]

\* The partition half of C9 alone
C9_PartitionOnly ==
    (cdpc \in {"done", "scored"} /\ IsTwoCliques(graph)) => OnePerClique

\* What calculateModularity returns on two cliques of k nodes: 1 / (2k)
C9_ModularityValue ==
    (cdpc = "scored" /\ IsTwoCliques(graph)) => modularity = RNorm(1, 2 * CliqueSize)

\* C10: the ids of the returned map are ordered by descending member count:
\* whenever id a < id b, community a has at least as many members as b.
C10_IdsBySize ==
    cdpc \in {"done", "scored"} =>
        \A a, b \in CommunityIds :
            a < b => Cardinality(Members(a)) >= Cardinality(Members(b))

\* C11: detectCommunities returns a total partition with contiguous ids:
\* the map is defined on exactly the nodes of the graph and the ids in use
\* are exactly 0..K-1 for some K <= N, also when the graph has no edges.
C11_ContiguousPartition ==
    cdpc \in {"done", "scored"} =>
        /\ DOMAIN communityMap = Nodes(graph)
        /\ \E K \in 0..graph.n : CommunityIds = 0..(K - 1)

\* The detector merged nodes and the renumbering changed the ids
C11_Witness ==
    /\ cdpc = "done"
    /\ Edges(graph) # {}
    /\ communityMap # nodeCommunity
    /\ Cardinality(CommunityIds) < graph.n

\* The detector returned on a graph of several nodes and no edges
C11_NoEdgesReached ==
    /\ cdpc = "done"
    /\ graph.n >= 2
    /\ Edges(graph) = {}

\* ------------------------------------------------------------------------
\* calculateInfluenceScores, buildNormalizer, assignTier
\* ------------------------------------------------------------------------

\* Largest number of nodes of a graph given to the scorer
InfMaxNodes == 3

\* DEFAULT_WEIGHTS, in hundredths
DEFAULT_WEIGHTS ==
    [pagerank |-> 30, inDegree |-> 25, karma |-> 15,
     postCount |-> 10, replyRate |-> 10, betweenness |-> 10]

\* The weights arguments: the default, one with a weight above 1 and one with
\* a negative weight
WeightInputs ==
    { DEFAULT_WEIGHTS,
      [DEFAULT_WEIGHTS EXCEPT !.pagerank = 200],
      [DEFAULT_WEIGHTS EXCEPT !.karma = -15] }

\* The attributes of one node that the scorer reads (karma may be negative)
AttrChoices ==
    [pagerank : {1, 2}, in_degree : {0, 1, 2}, karma : {-1, 3},
     post_count : {0}, comment_count : {0, 1}, betweenness : {0},
     community_id : {0}]

\* The attributes that go through buildNormalizer
NormalizedAttributes == {"pagerank", "in_degree", "karma", "post_count", "betweenness"}

\* The weight that multiplies the normalized attribute
WeightOf(w, attribute) ==
    CASE attribute = "pagerank" -> w.pagerank
      [] attribute = "in_degree" -> w.inDegree
      [] attribute = "karma" -> w.karma
      [] attribute = "post_count" -> w.postCount
      [] attribute = "betweenness" -> w.betweenness

\* x < y and x / y for rationals (y > 0 in RDiv)
RLess(x, y) == x[1] * y[2] < y[1] * x[2]
RDiv(x, y) == RNorm(x[1] * y[2], x[2] * y[1])

\* buildNormalizer: min and range = max - min over all nodes
BuildNormalizer(at, attribute) ==
    LET vals == { at[v][attribute] : v \in DOMAIN at }
        min == CHOOSE x \in vals : \A y \in vals : x <= y
        max == CHOOSE x \in vals : \A y \in vals : x >= y
    IN  [min |-> min, range |-> max - min]

\* A normalizer that maps a constant attribute to 1
NormalizeConstantToOne(norm, value) ==
    IF norm.range = 0 THEN ROne ELSE RNorm(value - norm.min, norm.range)

\* The function buildNormalizer returns
Normalize(norm, value) ==
    IF norm.range = 0 THEN RZero ELSE RNorm(value - norm.min, norm.range)

\* rate = commentCount > 0 ? inDeg / commentCount : 0
ReplyRate(a) ==
    IF a.comment_count > 0 THEN RNorm(a.in_degree, a.comment_count) ELSE RZero

\* maxReplyRate: the largest rate, starting from 0
MaxReplyRate(at) ==
    LET rates == { ReplyRate(at[v]) : v \in DOMAIN at } \cup {RZero}
    IN  CHOOSE x \in rates : \A y \in rates : ~RLess(x, y)

\* normReplyRate
NormReplyRate(at, v) ==
    IF RPositive(MaxReplyRate(at)) THEN RDiv(ReplyRate(at[v]), MaxReplyRate(at)) ELSE RZero

\* The sum of the rationals f[x], x in S
RECURSIVE RSumOver(_, _)
RSumOver(f, S) ==
    IF S = {} THEN RZero
    ELSE LET x == CHOOSE y \in S : TRUE IN RAdd(f[x], RSumOver(f, S \ {x}))

\* score of node v: the weighted sum of the six normalized components
Score(at, w, v) ==
    LET part == [a \in NormalizedAttributes |->
                    RMul(<<WeightOf(w, a), 100>>,
                         Normalize(BuildNormalizer(at, a), at[v][a]))]
    IN  RAdd(RSumOver(part, NormalizedAttributes),
             RMul(<<w.replyRate, 100>>, NormReplyRate(at, v)))

\* Inserting x into a list sorted by descending score, after every entry
\* whose score is at least x.score
RECURSIVE InsertByScore(_, _)
InsertByScore(sorted, x) ==
    IF sorted = << >> THEN <<x>>
    ELSE IF RLess(Head(sorted).score, x.score) THEN <<x>> \o sorted
    ELSE <<Head(sorted)>> \o InsertByScore(Tail(sorted), x)

\* A sort that puts an entry before the entries of equal score
RECURSIVE InsertBeforeEqual(_, _)
InsertBeforeEqual(sorted, x) ==
    IF sorted = << >> THEN <<x>>
    ELSE IF ~RLess(x.score, Head(sorted).score) THEN <<x>> \o sorted
    ELSE <<Head(sorted)>> \o InsertBeforeEqual(Tail(sorted), x)

RECURSIVE SortUnstable(_, _)
SortUnstable(list, sorted) ==
    IF list = << >> THEN sorted
    ELSE SortUnstable(Tail(list), InsertBeforeEqual(sorted, Head(list)))

SortByScoreUnstable(list) == SortUnstable(list, << >>)

\* scores.sort((a, b) => b.score - a.score): Array.prototype.sort is stable,
\* so the result is the one list sorted by descending score in which entries
\* of equal score keep their order
RECURSIVE SortLoop(_, _)
SortLoop(list, sorted) ==
    IF list = << >> THEN sorted
    ELSE SortLoop(Tail(list), InsertByScore(sorted, Head(list)))

SortByScore(list) == SortLoop(list, << >>)

\* The tiers by percentile alone: rising is the top 5%
AssignTierByPercentile(rank, total) ==
    IF 1000 * rank <= total THEN "elite"
    ELSE IF 100 * rank <= total THEN "major"
    ELSE IF 20 * rank <= total THEN "rising"
    ELSE "active"

\* assignTier with strict comparisons
AssignTierStrict(rank, total) ==
    IF 1000 * rank < total \/ rank < 100 THEN "elite"
    ELSE IF 100 * rank < total \/ rank < 500 THEN "major"
    ELSE IF 20 * rank < total THEN "rising"
    ELSE "active"

\* assignTier: percentile = rank / total is compared with 0.001, 0.01 and
\* 0.05, that is rank * 1000, rank * 100 and rank * 20 with total
AssignTier(rank, total) ==
    IF 1000 * rank <= total \/ rank <= 100 THEN "elite"
    ELSE IF 100 * rank <= total \/ rank <= 500 THEN "major"
    ELSE IF 20 * rank <= total THEN "rising"
    ELSE "active"

\* The profile built for the entry at position index of the sorted scores
Profile(at, list, index) ==
    [agentName |-> list[index].name,
     influenceScore |-> list[index].score,
     rank |-> index,
     tier |-> AssignTier(index, Len(list)),
     pagerank |-> at[list[index].name].pagerank,
     communities |-> <<at[list[index].name].community_id>>]

InitInfluence ==
    /\ BuildIdle /\ GraphIdle /\ MetricsIdle /\ PageRankIdle /\ CommunityIdle
    /\ TierIdle /\ ExportIdle /\ MainIdle /\ CollectorSideIdle
    /\ \E n \in 0..InfMaxNodes : attrs \in [1..n -> AttrChoices]
    /\ weights \in WeightInputs
    /\ ipc = "start"
    /\ scores = << >>
    /\ profiles = << >>

\* line 42: if (nodes.length === 0) return []
InfReturnEmpty ==
    /\ ipc = "start"
    /\ Len(attrs) = 0
    /\ ipc' = "done"
    /\ UNCHANGED <<attrs, weights, scores, profiles>>
    /\ UNCHANGED outsideInfluence

\* lines 44-83: the normalizers, the reply rates and the composite scores
InfScore ==
    /\ ipc = "start"
    /\ Len(attrs) > 0
    /\ scores' = [v \in 1..Len(attrs) |-> [name |-> v, score |-> Score(attrs, weights, v)]]
    /\ ipc' = "scored"
    /\ UNCHANGED <<attrs, weights, profiles>>
    /\ UNCHANGED outsideInfluence

\* line 86: scores.sort
InfSort ==
    /\ ipc = "scored"
    /\ scores' = SortByScore(scores)
    /\ ipc' = "sorted"
    /\ UNCHANGED <<attrs, weights, profiles>>
    /\ UNCHANGED outsideInfluence

\* lines 89-142: the profiles, with rank = index + 1
InfProfiles ==
    /\ ipc = "sorted"
    /\ profiles' = [index \in 1..Len(scores) |-> Profile(attrs, scores, index)]
    /\ ipc' = "done"
    /\ UNCHANGED <<attrs, weights, scores>>
    /\ UNCHANGED outsideInfluence

NextInfluence ==
    \/ InfReturnEmpty
    \/ InfScore
    \/ InfSort
    \/ InfProfiles

SpecInfluence == InitInfluence /\ [][NextInfluence]_vars

\* Every rank of every total up to this one is checked
TierExhaustive == 40

\* The calls of assignTier checked: the small totals with every rank, and
\* totals and ranks around the cut-offs
TierTotals ==
    (1..TierExhaustive) \cup
    {1, 2, 20, 100, 101, 600, 1000, 2000, 10000, 10019, 10020, 10021, 20000,
     100000, 101000, 200000}

TierRanks(total) ==
    { r \in {1, 2, 99, 100, 101, 102, 499, 500, 501, 502,
             total \div 1000, (total \div 1000) + 1,
             total \div 100, (total \div 100) + 1,
             total \div 20, (total \div 20) + 1, total - 1, total} :
        r >= 1 /\ r <= total }
    \cup (IF total <= TierExhaustive THEN 1..total ELSE {})

InitTier ==
    /\ BuildIdle /\ GraphIdle /\ MetricsIdle /\ PageRankIdle /\ CommunityIdle
    /\ InfluenceIdle /\ ExportIdle /\ MainIdle /\ CollectorSideIdle
    /\ tierTotal \in TierTotals
    /\ tierRank \in TierRanks(tierTotal)
    /\ tpc = "call"
    /\ tier = "none"

\* assignTier(rank, total)
TierCall ==
    /\ tpc = "call"
    /\ tier' = AssignTier(tierRank, tierTotal)
    /\ tpc' = "returned"
    /\ UNCHANGED <<tierRank, tierTotal>>
    /\ UNCHANGED outsideTier

NextTier == TierCall

SpecTier == InitTier /\ [][NextTier]_vars


\* ------------------------------------------------------------------------
\* Properties of the scorer
\* ------------------------------------------------------------------------

\* The attribute has the same value on every node
IsConstant(at, attribute) == \A u, v \in DOMAIN at : at[u][attribute] = at[v][attribute]

\* The score of node v with every constant metric, and the reply rate when
\* its maximum is 0, counted as 0
ScoreOfVarying(at, w, v) ==
    LET varying == { a \in NormalizedAttributes : ~IsConstant(at, a) }
        part == [a \in varying |->
                    LET norm == BuildNormalizer(at, a)
                    IN  RMul(<<WeightOf(w, a), 100>>, RNorm(at[v][a] - norm.min, norm.range))]
        reply == IF MaxReplyRate(at) = RZero THEN RZero
                 ELSE RMul(<<w.replyRate, 100>>, RDiv(ReplyRate(at[v]), MaxReplyRate(at)))
    IN  RAdd(RSumOver(part, varying), reply)

\* C12: a metric with the same value on every node normalizes to 0 on every
\* node; the reply rate normalizes to 0 on every node when the maximum reply
\* rate is 0; so the scores computed count only the other components.
C12_ConstantMetricIsZero ==
    ipc \in {"scored", "sorted"} =>
        /\ \A a \in NormalizedAttributes :
              IsConstant(attrs, a) =>
                 \A v \in DOMAIN attrs : Normalize(BuildNormalizer(attrs, a), attrs[v][a]) = RZero
        /\ MaxReplyRate(attrs) = RZero =>
              \A v \in DOMAIN attrs : NormReplyRate(attrs, v) = RZero
        /\ \A i \in 1..Len(scores) :
              scores[i].score = ScoreOfVarying(attrs, weights, scores[i].name)

\* Scores computed for several nodes of equal non-zero karma, unequal
\* pagerank, and replies received but no comment written
C12_Witness ==
    /\ ipc = "scored"
    /\ Len(attrs) >= 2
    /\ IsConstant(attrs, "karma") /\ attrs[1].karma # 0
    /\ ~IsConstant(attrs, "pagerank")
    /\ MaxReplyRate(attrs) = RZero
    /\ \E v \in DOMAIN attrs : attrs[v].in_degree > 0

\* C13: the tier of rank among total is elite if rank <= 100 or
\* rank/total <= 0.001; otherwise major if rank <= 500 or rank/total <= 0.01;
\* otherwise rising if rank/total <= 0.05; otherwise active.  With total =
\* 1000, rank 100 is elite and rank 101 is major.
C13_TierByRank ==
    tpc = "returned" =>
        LET percentile == RNorm(tierRank, tierTotal)
            atMost(x) == ~RLess(x, percentile)
        IN  /\ tier = IF tierRank <= 100 \/ atMost(<<1, 1000>>) THEN "elite"
                      ELSE IF tierRank <= 500 \/ atMost(<<1, 100>>) THEN "major"
                      ELSE IF atMost(<<5, 100>>) THEN "rising"
                      ELSE "active"
            /\ (tierTotal = 1000 /\ tierRank = 100) => tier = "elite"
            /\ (tierTotal = 1000 /\ tierRank = 101) => tier = "major"

\* assignTier(101, 1000) returned major
C13_Witness ==
    /\ tpc = "returned"
    /\ tierTotal = 1000 /\ tierRank = 101
    /\ tier = "major"

\* A rank above 100 is elite, and a rank above 500 is major, by percentile
C13_PercentileReached ==
    /\ tpc = "returned"
    /\ \/ tierRank > 100 /\ tier = "elite"
       \/ tierRank > 500 /\ tier = "major"

\* C14: the profiles carry the ranks 1..N in list order, one profile per
\* node; the scores are non-increasing along the list; two nodes of equal
\* score are in the order of the graph's node iteration.
C14_RankedStably ==
    ipc = "done" =>
        /\ Len(profiles) = Len(attrs)
        /\ \A i \in 1..Len(profiles) : profiles[i].rank = i
        /\ { profiles[i].agentName : i \in 1..Len(profiles) } = DOMAIN attrs
        /\ \A i, j \in 1..Len(profiles) :
              i < j =>
                 /\ ~RLess(profiles[i].influenceScore, profiles[j].influenceScore)
                 /\ profiles[i].influenceScore = profiles[j].influenceScore =>
                       profiles[i].agentName < profiles[j].agentName

\* Three profiles, the first not the first node, two of them of equal score
C14_Witness ==
    /\ ipc = "done"
    /\ Len(profiles) = 3
    /\ profiles[1].agentName # 1
    /\ \E i \in 1..2 : profiles[i].influenceScore = profiles[i + 1].influenceScore
    /\ profiles[1].influenceScore # profiles[3].influenceScore

\* A weight is out of range when it is negative or above 1
OutOfRange(w) ==
    \E k \in DOMAIN w : w[k] < 0 \/ w[k] > 100

\* C15: every profile has a composite score in [0, 1].
C15_ScoreInUnitInterval ==
    ipc = "done" =>
        \A i \in 1..Len(profiles) :
            /\ RNonNegative(profiles[i].influenceScore)
            /\ ~RLess(ROne, profiles[i].influenceScore)

\* With the default weights every score is in [0, 1]
C15_DefaultWeights ==
    (ipc = "done" /\ weights = DEFAULT_WEIGHTS) =>
        \A i \in 1..Len(profiles) :
            /\ RNonNegative(profiles[i].influenceScore)
            /\ ~RLess(ROne, profiles[i].influenceScore)

\* C16: with out-of-range weights the scorer falls back to the default
\* weights: the scores are those of DEFAULT_WEIGHTS, not of the weights
\* supplied.
C16_FallsBackToDefault ==
    (ipc \in {"scored", "sorted"} /\ OutOfRange(weights)) =>
        \A i \in 1..Len(scores) :
            scores[i].score = Score(attrs, DEFAULT_WEIGHTS, scores[i].name)

\* What the scorer does: it always computes with the weights supplied
C16_UsesSuppliedWeights ==
    ipc \in {"scored", "sorted"} =>
        \A i \in 1..Len(scores) :
            scores[i].score = Score(attrs, weights, scores[i].name)


\* ------------------------------------------------------------------------
\* selectNodes, expandWithConnections
\* ------------------------------------------------------------------------

\* Largest number of nodes and of edges of the small graphs given to
\* selectNodes, and the number of nodes of the large ones
ExMaxNodes == 3
ExMaxEdges == 3
ExManyNodes == 21

\* if (list.length < 20)
CommunityTop == 20

\* The default of --top
DefaultTop == 100

\* The sequences that list every element of S once
SeqsOf(S) ==
    { q \in [1..Cardinality(S) -> S] : \A x \in S : \E i \in DOMAIN q : q[i] = x }

\* The elements of a sequence
Range(q) == { q[i] : i \in DOMAIN q }

\* A slice that takes one entry more
SliceOneMore(list, count) ==
    SubSeq(list, 1, IF count + 1 < Len(list) THEN count + 1 ELSE Len(list))

\* list.slice(0, count), count >= 0
Slice(list, count) == SubSeq(list, 1, IF count < Len(list) THEN count ELSE Len(list))

\* list.map(p => p.agentName)
AgentNames(list) == [i \in DOMAIN list |-> list[i].agentName]

\* list.filter(p => p.influenceScore >= minInfluenceScore)
RECURSIVE FilterByScore(_, _)
FilterByScore(list, minScore) ==
    IF list = << >> THEN << >>
    ELSE IF ~RLess(Head(list).influenceScore, minScore)
         THEN <<Head(list)>> \o FilterByScore(Tail(list), minScore)
         ELSE FilterByScore(Tail(list), minScore)

\* The loop of case 'community': communityTop after the profiles from
\* position i on, as the list of the community ids in insertion order and the
\* list of names of each
RECURSIVE CommunityTopLoop(_, _, _, _)
CommunityTopLoop(list, i, ids, lists) ==
    IF i > Len(list) THEN [ids |-> ids, lists |-> lists]
    ELSE LET comId == list[i].communities[1]
             known == comId \in DOMAIN lists
             cur == IF known THEN lists[comId] ELSE << >>
         IN  IF Len(cur) < CommunityTop
             THEN CommunityTopLoop(list, i + 1,
                     IF known THEN ids ELSE Append(ids, comId),
                     (comId :> Append(cur, list[i].agentName)) @@ lists)
             ELSE CommunityTopLoop(list, i + 1, ids, lists)

\* [...communityTop.values()].flat()
RECURSIVE Flat(_, _, _)
Flat(ids, lists, i) ==
    IF i > Len(ids) THEN << >> ELSE lists[ids[i]] \o Flat(ids, lists, i + 1)

SelectCommunity(list) ==
    LET top == CommunityTopLoop(list, 1, << >>, << >>)
    IN  Flat(top.ids, top.lists, 1)

\* The profiles calculateInfluenceScores returns for n nodes: one per node,
\* rank = position, scores non-increasing.  The scores are read by case
\* 'custom' only: there the first h are 1 and the rest 0, elsewhere they are
\* all different.  The communities are read by case 'community' only.
ProfilesOf(n, order, score, com) ==
    [i \in 1..n |->
        [agentName |-> order[i],
         influenceScore |-> score[i],
         rank |-> i,
         tier |-> AssignTier(i, n),
         pagerank |-> 1,
         communities |-> <<com[order[i]]>>]]

DistinctScores(n) == [i \in 1..n |-> RNorm(n - i, n)]

TiedScores(n, h) == [i \in 1..n |-> IF i <= h THEN ROne ELSE RZero]

OneCommunity(n) == [v \in 1..n |-> 0]

\* Profiles of many nodes in node order: the nodes up to c are in community
\* 0 and the others in community 1; node k has the largest pagerank
ManyProfiles(n) ==
    { [i \in 1..n |->
          [agentName |-> i,
           influenceScore |-> RNorm(n - i, n),
           rank |-> i,
           tier |-> AssignTier(i, n),
           pagerank |-> IF i = k THEN 2 ELSE 1,
           communities |-> <<IF i <= c THEN 0 ELSE 1>>]] :
      k \in 1..n, c \in 0..n }

\* The configurations: the analyze action sets includeConnections for tier
\* expanded; minInfluenceScore is read for tier custom only, influencerTop
\* by every tier but community; tier 'other' is a name the switch does not
\* know
TopConfigs ==
    [tier : {"elite", "other"}, influencerTop : 0..ExMaxNodes,
     includeConnections : BOOLEAN, minInfluenceScore : {RZero}]
    \cup [tier : {"expanded"}, influencerTop : 0..ExMaxNodes,
          includeConnections : {TRUE}, minInfluenceScore : {RZero}]

CommunityConfig ==
    [tier |-> "community", influencerTop |-> DefaultTop,
     includeConnections |-> FALSE, minInfluenceScore |-> RZero]

CustomConfigs ==
    [tier : {"custom"}, influencerTop : 0..ExMaxNodes,
     includeConnections : {FALSE}, minInfluenceScore : {RZero, <<1, 2>>}]

InitExport ==
    /\ BuildIdle /\ MetricsIdle /\ PageRankIdle /\ CommunityIdle /\ TierIdle
    /\ MainIdle /\ CollectorSideIdle
    /\ ipc = "idle" /\ attrs = << >> /\ weights = << >> /\ scores = << >>
    /\ \/ \E n \in 0..ExMaxNodes :
             /\ \E E \in SUBSET AllPairs(n) :
                   /\ Cardinality(E) <= ExMaxEdges
                   /\ graph = [n |-> n, w |-> [e \in E |-> 1]]
             /\ \E order \in SeqsOf(1..n) :
                   \/ /\ config \in TopConfigs
                      /\ profiles = ProfilesOf(n, order, DistinctScores(n), OneCommunity(n))
                   \/ /\ config = CommunityConfig
                      /\ \E com \in [1..n -> {0, 1}] :
                            profiles = ProfilesOf(n, order, DistinctScores(n), com)
                   \/ /\ config \in CustomConfigs
                      /\ \E h \in 0..n :
                            profiles = ProfilesOf(n, order, TiedScores(n, h), OneCommunity(n))
       \/ /\ \E n \in (ExManyNodes - 1)..ExManyNodes :
                /\ graph = [n |-> n, w |-> << >>]
                /\ profiles \in ManyProfiles(n)
          /\ config = CommunityConfig
    /\ epc = "start"
    /\ ei = 0
    /\ included = << >>
    /\ bundle = << >>

\* A selection that takes every profile
TopNodesAll == AgentNames(profiles)

\* topNodes = profiles.slice(0, config.influencerTop).map(p => p.agentName)
TopNodes == AgentNames(Slice(profiles, config.influencerTop))

\* lines 125-128: case 'elite' without connections
ExElite ==
    /\ epc = "start"
    /\ config.tier = "elite" /\ ~config.includeConnections
    /\ included' = TopNodes
    /\ epc' = "done"
    /\ UNCHANGED <<config, ei, bundle>>
    /\ UNCHANGED outsideExport

\* An elite selection that always expands
ExpandsWithoutFlag == config.tier \in {"elite", "expanded"}

\* The cases that call expandWithConnections
Expands ==
    \/ config.tier = "elite" /\ config.includeConnections
    \/ config.tier = "expanded"

\* lines 129, 131-135, 164: expanded = new Set(coreNodes)
ExExpandStart ==
    /\ epc = "start"
    /\ Expands
    /\ included' = TopNodes
    /\ ei' = 1
    /\ epc' = "expand"
    /\ UNCHANGED <<config, bundle>>
    /\ UNCHANGED outsideExport

\* lines 166-171: the neighbors of one core node not yet in the set are
\* added, in the order in which graph.forEachNeighbor yields them
ExExpandIter ==
    /\ epc = "expand"
    /\ ei <= Len(TopNodes)
    /\ \E added \in SeqsOf(Neighbors(graph, TopNodes[ei]) \ Range(included)) :
          included' = included \o added
    /\ ei' = ei + 1
    /\ UNCHANGED <<epc, config, bundle>>
    /\ UNCHANGED outsideExport

\* line 173: return [...expanded]
ExExpandReturn ==
    /\ epc = "expand"
    /\ ei > Len(TopNodes)
    /\ epc' = "done"
    /\ UNCHANGED <<config, ei, included, bundle>>
    /\ UNCHANGED outsideExport

\* lines 136-148: case 'community'
ExCommunity ==
    /\ epc = "start"
    /\ config.tier = "community"
    /\ included' = SelectCommunity(profiles)
    /\ epc' = "done"
    /\ UNCHANGED <<config, ei, bundle>>
    /\ UNCHANGED outsideExport

\* lines 149-154: case 'custom'
ExCustom ==
    /\ epc = "start"
    /\ config.tier = "custom"
    /\ included' = AgentNames(Slice(FilterByScore(profiles, config.minInfluenceScore),
                                    config.influencerTop))
    /\ epc' = "done"
    /\ UNCHANGED <<config, ei, bundle>>
    /\ UNCHANGED outsideExport

\* lines 155-156: default
ExDefault ==
    /\ epc = "start"
    /\ config.tier \notin {"elite", "expanded", "community", "custom"}
    /\ included' = TopNodes
    /\ epc' = "done"
    /\ UNCHANGED <<config, ei, bundle>>
    /\ UNCHANGED outsideExport

\* The name '' of top_influencer when there is no profile (the nodes are
\* named 1, 2, ...)
EmptyName == 0

\* The edges in the order of graph.forEachEdge (here: by source, then target)
RECURSIVE EdgeSeq(_)
EdgeSeq(E) ==
    IF E = {} THEN << >>
    ELSE LET first == CHOOSE e \in E :
                         \A f \in E : e[1] < f[1] \/ (e[1] = f[1] /\ e[2] <= f[2])
         IN  <<first>> \o EdgeSeq(E \ {first})

\* Links that keep an edge when either endpoint is included
RECURSIVE LinksEitherEnd(_, _, _)
LinksEitherEnd(g, order, nodeSet) ==
    IF order = << >> THEN << >>
    ELSE LET e == Head(order)
             rest == LinksEitherEnd(g, Tail(order), nodeSet)
         IN  IF e[1] \in nodeSet \/ e[2] \in nodeSet
             THEN <<[source |-> e[1], target |-> e[2], weight |-> g.w[e]]>> \o rest
             ELSE rest

\* lines 64-73: visLinks, the edges whose two endpoints are included
RECURSIVE VisLinks(_, _, _)
VisLinks(g, order, nodeSet) ==
    IF order = << >> THEN << >>
    ELSE LET e == Head(order)
             rest == VisLinks(g, Tail(order), nodeSet)
         IN  IF e[1] \in nodeSet /\ e[2] \in nodeSet
             THEN <<[source |-> e[1], target |-> e[2], weight |-> g.w[e]]>> \o rest
             ELSE rest

\* lines 86-88: the mean influence score, 0 without profiles
AvgInfluence(list) ==
    IF Len(list) > 0
    THEN RDiv(RSumOver([i \in DOMAIN list |-> list[i].influenceScore], DOMAIN list),
              <<Len(list), 1>>)
    ELSE RZero

\* lines 27-111: the bundle built from the selected nodes
ExBundle ==
    /\ epc = "done"
    /\ bundle' =
          [nodes |-> included,
           links |-> VisLinks(graph, EdgeSeq(Edges(graph)), Range(included)),
           total_agents |-> graph.n,
           influencer_count |->
               Cardinality({ i \in DOMAIN profiles : profiles[i].tier # "active" }),
           top_influencer |->
               IF Len(profiles) > 0 THEN profiles[1].agentName ELSE EmptyName,
           avg_influence_score |-> AvgInfluence(profiles),
           rankings |-> Slice(profiles, config.influencerTop * 2)]
    /\ epc' = "exported"
    /\ UNCHANGED <<config, ei, included>>
    /\ UNCHANGED outsideExport

NextExport ==
    \/ ExBundle
    \/ ExElite
    \/ ExExpandStart
    \/ ExExpandIter
    \/ ExExpandReturn
    \/ ExCommunity
    \/ ExCustom
    \/ ExDefault

SpecExport == InitExport /\ [][NextExport]_vars


\* ------------------------------------------------------------------------
\* Properties of selectNodes
\* ------------------------------------------------------------------------

\* The rank of the profile of a node
RankOf(name) == (CHOOSE p \in Range(profiles) : p.agentName = name).rank

\* The top-N nodes by influence score, N = influencerTop
TopSet == { p.agentName : p \in { q \in Range(profiles) : q.rank <= config.influencerTop } }

\* The direct in- and out-neighbors of the top-N nodes
TopNeighbors ==
    { v \in Nodes(graph) :
        \E t \in TopSet : <<t, v>> \in Edges(graph) \/ <<v, t>> \in Edges(graph) }

\* No node is listed twice
NoDuplicates(q) == Len(q) = Cardinality(Range(q))

\* C17: with tier elite and includeConnections = false every exported node
\* has influence rank <= influencerTop.
C17_EliteWithinCutoff ==
    (epc = "done" /\ config.tier = "elite" /\ ~config.includeConnections) =>
        \A name \in Range(included) : RankOf(name) <= config.influencerTop

\* An elite selection without connections that left out a neighbor of a
\* selected node
C17_Witness ==
    /\ epc = "done"
    /\ config.tier = "elite" /\ ~config.includeConnections
    /\ included # << >>
    /\ TopNeighbors \ Range(included) # {}

\* C18 as stated: for tier elite the exported node set is exactly the top-N
\* nodes by influence score, with no expansion by neighbors.
C18_EliteNeverExpands ==
    (epc = "done" /\ config.tier = "elite") =>
        /\ Range(included) = TopSet
        /\ NoDuplicates(included)

\* C18 amended: for tier elite with includeConnections = false the exported
\* nodes are exactly the top-N nodes by influence score; with
\* includeConnections = true their direct neighbors are added.
C18_EliteExact ==
    (epc = "done" /\ config.tier = "elite") =>
        /\ NoDuplicates(included)
        /\ ~config.includeConnections => Range(included) = TopSet
        /\ config.includeConnections => Range(included) = TopSet \cup TopNeighbors

\* An elite selection of two of three nodes, not the first two nodes of the
\* graph, the node left out joined to both
C18_Witness ==
    /\ epc = "done"
    /\ config.tier = "elite" /\ ~config.includeConnections
    /\ Len(included) = 2 /\ Len(profiles) = 3
    /\ Range(included) # {1, 2}
    /\ \A v \in Range(included) : profiles[3].agentName \in Neighbors(graph, v)

\* An elite selection with connections that added a neighbor
C18_ExpansionReached ==
    /\ epc = "done"
    /\ config.tier = "elite" /\ config.includeConnections
    /\ Range(included) # TopSet

\* The members of a community, and the pagerank of a node
MembersOf(comId) ==
    { p.agentName : p \in { q \in Range(profiles) : q.communities[1] = comId } }

PageRankOf(name) == (CHOOSE p \in Range(profiles) : p.agentName = name).pagerank

\* C19: for tier community the exported node set holds, of each community,
\* the top 20 members by PageRank (all members when there are fewer than 20):
\* min(20, size) members, none of smaller PageRank than a member left out.
C19_TopByPageRank ==
    (epc = "done" /\ config.tier = "community") =>
        /\ Range(included) \subseteq Nodes(graph)
        /\ \A p \in Range(profiles) :
              LET members == MembersOf(p.communities[1])
                  chosen == members \cap Range(included)
              IN  /\ Cardinality(chosen) =
                        IF Cardinality(members) < CommunityTop
                        THEN Cardinality(members) ELSE CommunityTop
                  /\ \A x \in chosen, y \in members \ chosen :
                        PageRankOf(x) >= PageRankOf(y)

\* What case 'community' selects: the first 20 members of each community in
\* the order of the profiles, that is by influence rank
C19_TopByInfluenceRank ==
    (epc = "done" /\ config.tier = "community") =>
        /\ NoDuplicates(included)
        /\ \A p \in Range(profiles) :
              LET members == MembersOf(p.communities[1])
                  chosen == members \cap Range(included)
              IN  /\ Cardinality(chosen) =
                        IF Cardinality(members) < CommunityTop
                        THEN Cardinality(members) ELSE CommunityTop
                  /\ \A x \in chosen, y \in members \ chosen : RankOf(x) < RankOf(y)

\* C20: for tier expanded the exported node set is exactly the top-N nodes
\* together with their direct in- and out-neighbors, each node once; no node
\* at distance 2 or more from all top-N nodes is included.
C20_ExpandedOneHop ==
    (epc = "done" /\ config.tier = "expanded") =>
        /\ Range(included) = TopSet \cup TopNeighbors
        /\ NoDuplicates(included)
        /\ \A v \in Range(included) :
              v \in TopSet \/ \E t \in TopSet : v \in Neighbors(graph, t)

\* An expanded selection that added an in-neighbor of the one top node and
\* left out a node two steps away
C20_Witness ==
    /\ epc = "done"
    /\ config.tier = "expanded"
    /\ config.influencerTop = 1
    /\ Len(included) = 2
    /\ <<included[2], included[1]>> \in Edges(graph)
    /\ \E w \in Nodes(graph) \ Range(included) :
          <<w, included[2]>> \in Edges(graph)


\* The edges that appear in the exported links
LinkedEdges == { <<l.source, l.target>> : l \in Range(bundle.links) }

\* C21: an edge of the graph is in the exported links if and only if both
\* its endpoints are in the exported node list, so every exported link has
\* both endpoints among the exported nodes; a link is listed once, with the
\* weight of its edge.
C21_LinksIffBothEnds ==
    epc = "exported" =>
        /\ \A e \in Edges(graph) :
              e \in LinkedEdges <=> (e[1] \in Range(bundle.nodes) /\ e[2] \in Range(bundle.nodes))
        /\ \A l \in Range(bundle.links) :
              /\ <<l.source, l.target>> \in Edges(graph)
              /\ l.weight = graph.w[<<l.source, l.target>>]
              /\ l.source \in Range(bundle.nodes) /\ l.target \in Range(bundle.nodes)
        /\ NoDuplicates(bundle.links)

\* An export with a link kept and an edge dropped that has one endpoint
\* among the exported nodes
C21_Witness ==
    /\ epc = "exported"
    /\ bundle.links # << >>
    /\ \E e \in Edges(graph) \ LinkedEdges :
          e[1] \in Range(bundle.nodes) \/ e[2] \in Range(bundle.nodes)

\* The tier names the switch of selectNodes knows
KnownTiers == {"elite", "expanded", "community", "custom"}

\* C22: with a tier that is not a known value the export does not fail and
\* exports exactly the top-N nodes by influence score, in rank order, without
\* neighbor expansion.
C22_UnknownTierTopN ==
    (config # << >> /\ config.tier \notin KnownTiers) =>
        /\ epc \in {"start", "done", "exported"}
        /\ epc \in {"done", "exported"} =>
              /\ Range(included) = TopSet
              /\ \A i \in DOMAIN included : RankOf(included[i]) = i
        /\ epc = "exported" => bundle.nodes = included

\* An export with an unknown tier that left out a neighbor of a top node
C22_Witness ==
    /\ epc = "exported"
    /\ config.tier \notin KnownTiers
    /\ bundle.nodes # << >>
    /\ TopNeighbors \ Range(bundle.nodes) # {}

\* C23: influencers.rankings is the full ranking of all scored nodes, not
\* filtered by the view and not truncated by the top-N setting.
C23_FullRankings ==
    epc = "exported" => bundle.rankings = profiles

\* What the export lists: the first 2 * influencerTop profiles
C23_TwiceTopRankings ==
    epc = "exported" =>
        /\ Len(bundle.rankings) =
              IF 2 * config.influencerTop < Len(profiles)
              THEN 2 * config.influencerTop ELSE Len(profiles)
        /\ \A i \in DOMAIN bundle.rankings : bundle.rankings[i] = profiles[i]


\* ------------------------------------------------------------------------
\* Further properties of the community detector and of assignTier
\* ------------------------------------------------------------------------

\* C27: the local-move loop makes at most 50 passes, each over the nodes
\* once; when it stops before the 50th pass it stops right after a pass in
\* which no node moved, and then no node has a neighboring community of
\* strictly positive deltaQ.
C27_LoopBounded ==
    /\ iterations <= MaxIterations
    /\ cdpc = "for" => (ci >= 1 /\ ci <= graph.n + 1)
    /\ (cdpc \in {"done", "scored"} /\ iterations >= 1 /\ iterations < MaxIterations) =>
          /\ ~improved
          /\ \A v \in Nodes(graph) :
                \A com \in (DOMAIN NeighborCommunities(graph, nodeCommunity, v))
                              \ {nodeCommunity[v]} :
                    DeltaQ(graph, nodeCommunity, v, com) <= 0

\* The loop stopped after three passes or more, nodes having moved
C27_Witness ==
    /\ cdpc = "done"
    /\ iterations >= 3
    /\ \E v \in Nodes(graph) : nodeCommunity[v] # v - 1

\* C28: for every total < 10020 and every rank in 1..total assignTier never
\* returns rising: the tier is elite, major or active.
C28_NoRisingBelow10020 ==
    (tpc = "returned" /\ tierTotal < 10020) => tier \in {"elite", "major", "active"}

\* A rank within the top 5% of fewer than 10020 nodes and above 500 is active
C28_Witness ==
    /\ tpc = "returned"
    /\ tierTotal < 10020
    /\ tierRank > 500
    /\ tier = "active"

\* rising is returned for a total of 10020
C28_RisingReached ==
    /\ tpc = "returned"
    /\ tierTotal = 10020
    /\ tier = "rising"

\* The weakly connected component of a set of nodes
RECURSIVE ComponentOf(_, _)
ComponentOf(g, S) ==
    LET T == S \cup UNION { Neighbors(g, v) : v \in S }
    IN  IF T = S THEN S ELSE ComponentOf(g, T)

\* Nodes that share a community in the map nc are in one component
WithinComponents(nc) ==
    \A u, v \in DOMAIN nc : nc[u] = nc[v] => v \in ComponentOf(graph, {u})

\* C29: after every move and in the result of detectCommunities two nodes
\* that share a community lie in the same weakly connected component; a
\* node without incident edge is alone in its community.
C29_WithinComponents ==
    /\ cdpc \in {"while", "for", "done", "scored"} => WithinComponents(nodeCommunity)
    /\ cdpc \in {"done", "scored"} =>
          /\ WithinComponents(communityMap)
          /\ \A v \in Nodes(graph) :
                Neighbors(graph, v) = {} =>
                    \A u \in Nodes(graph) \ {v} : communityMap[u] # communityMap[v]

\* The detector merged nodes of a graph of two components or more, one of
\* them a node without edges
C29_Witness ==
    /\ cdpc = "done"
    /\ \E v \in Nodes(graph) : Neighbors(graph, v) = {}
    /\ \E u, v \in Nodes(graph) : u # v /\ communityMap[u] = communityMap[v]
    /\ Cardinality(CommunityIds) >= 3



\* ------------------------------------------------------------------------
\* TokenBucketRateLimiter (collector, rate-limiter)
\* ------------------------------------------------------------------------

\* The largest maxTokens and refillRate the limiter is constructed with
LimMaxTokens == 2

\* The callers of acquire() that run at once
LimCallers == 2

\* refillInterval, in milliseconds
LimInterval == 200

\* The clock stops here
LimMaxTime == 700

\* The clock moves on by one of these
LimTicks == {50, LimInterval}

\* await this.sleep(waitTime + 100)
SleepSlack == 100

\* refill(): whole periods elapsed since lastRefill are credited, capped
Refill(b, t) ==
    LET elapsed == t - b.lastRefill
        periods == elapsed \div b.refillInterval
        sum == b.tokens + b.refillRate * periods
    IN  IF elapsed >= b.refillInterval
        THEN [b EXCEPT !.tokens = IF b.maxTokens < sum THEN b.maxTokens ELSE sum,
                       !.lastRefill = @ + periods * b.refillInterval]
        ELSE b

\* this.tokens--
TakeToken(b) == [b EXCEPT !.tokens = @ - 1]

\* constructor(maxTokens, refillRate, refillInterval)
InitLimiter ==
    /\ BuildIdle /\ GraphIdle /\ MetricsIdle /\ PageRankIdle /\ CommunityIdle
    /\ ScorerIdle /\ MainIdle /\ CollectorIdle
    /\ now = 0
    /\ \E mt, rr \in 1..LimMaxTokens :
          bucket = [maxTokens |-> mt, refillRate |-> rr, refillInterval |-> LimInterval,
                    tokens |-> mt, lastRefill |-> 0]
    /\ callers = [c \in 1..LimCallers |-> [pc |-> "ready", wakeAt |-> 0]]

\* acquire() up to its await, or to its return when it does not wait
Acquire(c) ==
    /\ callers[c].pc = "ready"
    /\ LET b == Refill(bucket, now)
           waitTime == b.refillInterval - (now - b.lastRefill)
       IN  IF b.tokens < 1
           THEN IF waitTime > 0
                THEN /\ bucket' = b
                     /\ callers' = [callers EXCEPT
                            ![c] = [pc |-> "sleeping", wakeAt |-> now + waitTime + SleepSlack]]
                ELSE /\ bucket' = TakeToken(Refill(b, now))
                     /\ UNCHANGED callers
           ELSE /\ bucket' = TakeToken(b)
                /\ UNCHANGED callers
    /\ UNCHANGED now
    /\ UNCHANGED <<buildVars, graph, metricVars, prVars, cdVars, infVars, tierVars,
                   exVars, mainVars, colVars>>

\* acquire() from the end of its sleep to its return
Wake(c) ==
    /\ callers[c].pc = "sleeping"
    /\ now >= callers[c].wakeAt
    /\ bucket' = TakeToken(Refill(bucket, now))
    /\ callers' = [callers EXCEPT ![c] = [pc |-> "ready", wakeAt |-> 0]]
    /\ UNCHANGED now
    /\ UNCHANGED <<buildVars, graph, metricVars, prVars, cdVars, infVars, tierVars,
                   exVars, mainVars, colVars>>

\* get remaining()
Remaining ==
    /\ bucket # << >>
    /\ bucket' = Refill(bucket, now)
    /\ bucket' # bucket
    /\ UNCHANGED <<now, callers>>
    /\ UNCHANGED <<buildVars, graph, metricVars, prVars, cdVars, infVars, tierVars,
                   exVars, mainVars, colVars>>

\* Date.now() moves on
Tick ==
    /\ bucket # << >>
    /\ \E d \in LimTicks : now + d <= LimMaxTime /\ now' = now + d
    /\ UNCHANGED <<bucket, callers>>
    /\ UNCHANGED <<buildVars, graph, metricVars, prVars, cdVars, infVars, tierVars,
                   exVars, mainVars, colVars>>

AcquireSome == \E c \in 1..LimCallers : Acquire(c)

WakeSome == \E c \in 1..LimCallers : Wake(c)

NextLimiter ==
    \/ AcquireSome
    \/ WakeSome
    \/ Remaining
    \/ Tick

SpecLimiter == InitLimiter /\ [][NextLimiter]_vars

\* C30: under any interleaving of acquire() calls and clock advances the
\* token count is never negative and never above maxTokens
C30_TokensInRange ==
    bucket # << >> => (bucket.tokens >= 0 /\ bucket.tokens <= bucket.maxTokens)

\* The upper half of C30 alone: the count never exceeds maxTokens
C30_NeverAboveMax == bucket # << >> => bucket.tokens <= bucket.maxTokens

\* A caller has slept through a period and come back
C30_WokenReached ==
    /\ bucket # << >>
    /\ now >= LimInterval + SleepSlack
    /\ \E c \in DOMAIN callers : callers[c].pc = "ready"
    /\ \E c \in DOMAIN callers : callers[c].pc = "sleeping"


\* ------------------------------------------------------------------------
\* Collector.run (collector)
\* ------------------------------------------------------------------------

\* The posts the API knows
ColMaxPosts == 2

\* The agents the API knows
ColMaxAgents == 2

\* The pages of posts one run fetches, over all sort orders
ColMaxPages == 1

\* if (processed % 10 === 0) this.saveState()
SaveEvery == 10

PostIds == 1..ColMaxPosts

ColAgentNames == 1..ColMaxAgents

\* A post without author.name
NoAuthor == 0

\* Paths under config.outputDir: name 0 is the directory itself
PathOf(dir, name) == [in |-> dir, name |-> name]

OutputDir == PathOf("outputDir", 0)

\* const dirs = ['posts', 'agents', 'comments'], made with { recursive: true }
OutputDirs == {OutputDir, PathOf("posts", 0), PathOf("agents", 0), PathOf("comments", 0)}

PostFile(id) == PathOf("posts", id)

PostCommentsFile(id) == PathOf("comments", id)

AllCommentsFile == PathOf("comments", -1)

AgentFile(name) == PathOf("agents", name)

LeaderboardFile == PathOf("outputDir", -1)

TopPostsFile == PathOf("outputDir", -2)

StateFile == PathOf("outputDir", -3)

CollectorModes == {"full", "influencer-first"}

\* new Collector(config), run() not yet entered
InitCollector ==
    /\ BuildIdle /\ GraphIdle /\ MetricsIdle /\ PageRankIdle /\ CommunityIdle
    /\ ScorerIdle /\ MainIdle /\ LimiterIdle
    /\ collectorConfig \in [dryRun : BOOLEAN, mode : CollectorModes]
    /\ disk \in {{}, OutputDirs}
    /\ diskBefore = disk
    /\ cpc = "start"
    /\ collected = [posts |-> << >>, seen |-> {}, agents |-> {}, tried |-> {},
                    pages |-> 0, pi |-> 0, processed |-> 0]

outsideCollector ==
    <<buildVars, graph, metricVars, prVars, cdVars, infVars, tierVars, exVars,
      mainVars, limVars>>

\* ensureOutputDirs
EnsureOutputDirs ==
    /\ cpc = "start"
    /\ disk' = disk \cup OutputDirs
    /\ cpc' = "leaderboard"
    /\ UNCHANGED <<collectorConfig, diskBefore, collected>>
    /\ UNCHANGED outsideCollector

\* collectMoltbookLeaderboard: the entries fetched are saved unless there are none
CollectMoltbookLeaderboard ==
    /\ cpc = "leaderboard"
    /\ \E entries \in SUBSET ColAgentNames :
          /\ collected' = [collected EXCEPT !.seen = @ \cup entries]
          /\ disk' = IF entries = {} THEN disk ELSE disk \cup {LeaderboardFile}
    /\ cpc' = "topPosts"
    /\ UNCHANGED <<collectorConfig, diskBefore>>
    /\ UNCHANGED outsideCollector

\* collectMoltbookTopPosts
CollectMoltbookTopPosts ==
    /\ cpc = "topPosts"
    /\ \E found \in BOOLEAN : \E authors \in SUBSET ColAgentNames :
          /\ found \/ authors = {}
          /\ collected' = [collected EXCEPT !.seen = @ \cup authors]
          /\ disk' = IF found THEN disk \cup {TopPostsFile} ELSE disk
    /\ cpc' = "posts"
    /\ UNCHANGED <<collectorConfig, diskBefore>>
    /\ UNCHANGED outsideCollector

\* collectPosts: one page of client.getPosts; every post not seen before is saved
CollectPostsPage ==
    /\ cpc = "posts"
    /\ collected.pages < ColMaxPages
    /\ \E ids \in SUBSET PostIds : \E author \in [ids -> {NoAuthor} \cup ColAgentNames] :
          /\ ids # {}
          /\ LET fresh == ids \ DOMAIN collected.posts
             IN  /\ collected' = [collected EXCEPT
                        !.posts = [id \in DOMAIN collected.posts \cup fresh |->
                                      IF id \in fresh THEN author[id] ELSE collected.posts[id]],
                        !.seen = @ \cup ({ author[id] : id \in fresh } \ {NoAuthor}),
                        !.pages = @ + 1]
                 /\ disk' = disk \cup { PostFile(id) : id \in fresh }
    /\ UNCHANGED <<cpc, collectorConfig, diskBefore>>
    /\ UNCHANGED outsideCollector

\* collectPosts returns: an empty page, a short page, an error or maxPages
CollectPostsDone ==
    /\ cpc = "posts"
    /\ cpc' = IF collectorConfig.mode = "influencer-first" THEN "candidates" ELSE "comments"
    /\ collected' = [collected EXCEPT !.tried = {}, !.pi = 1]
    /\ UNCHANGED <<collectorConfig, disk, diskBefore>>
    /\ UNCHANGED outsideCollector

\* collectAgentProfile(name): the merged agent is saved when any source has it
CollectAgentProfile(name) ==
    /\ name \notin collected.tried
    /\ \E found \in BOOLEAN :
          IF name \notin collected.agents /\ found
          THEN /\ collected' = [collected EXCEPT !.agents = @ \cup {name},
                                                 !.tried = @ \cup {name}]
               /\ disk' = disk \cup {AgentFile(name)}
          ELSE /\ collected' = [collected EXCEPT !.tried = @ \cup {name}]
               /\ UNCHANGED disk
    /\ UNCHANGED <<cpc, collectorConfig, diskBefore>>
    /\ UNCHANGED outsideCollector

\* The authors of the posts collected
PostAuthors == { collected.posts[id] : id \in DOMAIN collected.posts } \ {NoAuthor}

\* collectInfluencerFirst, phase 2: one candidate
CollectCandidate ==
    /\ cpc = "candidates"
    /\ \E name \in PostAuthors : CollectAgentProfile(name)

\* collectInfluencerFirst, phase 2 is over
CandidatesDone ==
    /\ cpc = "candidates"
    /\ PostAuthors \subseteq collected.tried
    /\ cpc' = "comments"
    /\ UNCHANGED <<collectorConfig, disk, diskBefore, collected>>
    /\ UNCHANGED outsideCollector

\* collectCommentsForPosts: one post; a failed fetch is skipped
CollectPostComments ==
    /\ cpc = "comments"
    /\ collected.pi <= Cardinality(DOMAIN collected.posts)
    /\ LET postId == SortedSeq(DOMAIN collected.posts)[collected.pi]
       IN  \E ok \in BOOLEAN : \E authors \in SUBSET ColAgentNames :
              /\ ok \/ authors = {}
              /\ IF ok
                 THEN /\ collected' = [collected EXCEPT !.seen = @ \cup authors,
                                           !.processed = @ + 1, !.pi = @ + 1]
                      /\ disk' = disk \cup {PostCommentsFile(postId)}
                                      \cup (IF (collected.processed + 1) % SaveEvery = 0
                                            THEN {StateFile} ELSE {})
                 ELSE /\ collected' = [collected EXCEPT !.pi = @ + 1]
                      /\ UNCHANGED disk
    /\ UNCHANGED <<cpc, collectorConfig, diskBefore>>
    /\ UNCHANGED outsideCollector

\* collectCommentsForPosts returns: saveAllComments
CollectCommentsDone ==
    /\ cpc = "comments"
    /\ collected.pi > Cardinality(DOMAIN collected.posts)
    /\ disk' = disk \cup {AllCommentsFile}
    /\ cpc' = "backfill"
    /\ UNCHANGED <<collectorConfig, diskBefore, collected>>
    /\ UNCHANGED outsideCollector

\* backfillAuthorsFromSite: nothing when no post lacks its author; the per-post
\* comment files it rewrites were written by collectCommentsForPosts
BackfillAuthorsFromSite ==
    /\ cpc = "backfill"
    /\ LET missing == { id \in DOMAIN collected.posts : collected.posts[id] = NoAuthor }
       IN  IF missing = {}
           THEN /\ UNCHANGED disk
                /\ collected' = [collected EXCEPT !.tried = {}]
           ELSE \E found \in SUBSET missing : \E name \in ColAgentNames :
                   /\ collected' = [collected EXCEPT
                          !.posts = [id \in DOMAIN collected.posts |->
                                        IF id \in found THEN name ELSE collected.posts[id]],
                          !.seen = IF found = {} THEN @ ELSE @ \cup {name},
                          !.tried = {}]
                   /\ disk' = disk \cup { PostFile(id) : id \in found }
                                   \cup {AllCommentsFile, StateFile}
    /\ cpc' = "agents"
    /\ UNCHANGED <<collectorConfig, diskBefore>>
    /\ UNCHANGED outsideCollector

\* collectAgentProfiles: one of the names seen
CollectSeenAgent ==
    /\ cpc = "agents"
    /\ \E name \in collected.seen \ collected.agents : CollectAgentProfile(name)

\* collectAgentProfiles returns
CollectAgentsDone ==
    /\ cpc = "agents"
    /\ (collected.seen \ collected.agents) \subseteq collected.tried
    /\ cpc' = "saveState"
    /\ UNCHANGED <<collectorConfig, disk, diskBefore, collected>>
    /\ UNCHANGED outsideCollector

\* saveState, then printSummary and client.close()
SaveState ==
    /\ cpc = "saveState"
    /\ disk' = disk \cup {StateFile}
    /\ cpc' = "done"
    /\ UNCHANGED <<collectorConfig, diskBefore, collected>>
    /\ UNCHANGED outsideCollector

NextCollector ==
    \/ EnsureOutputDirs
    \/ CollectMoltbookLeaderboard
    \/ CollectMoltbookTopPosts
    \/ CollectPostsPage
    \/ CollectPostsDone
    \/ CollectCandidate
    \/ CandidatesDone
    \/ CollectPostComments
    \/ CollectCommentsDone
    \/ BackfillAuthorsFromSite
    \/ CollectSeenAgent
    \/ CollectAgentsDone
    \/ SaveState

SpecCollector == InitCollector /\ [][NextCollector]_vars

\* C26: with --dry-run no step of Collector.run writes a file or creates a
\* directory: the disk is at every point what it was when the run started
C26_DryRunWritesNothing ==
    (cpc # "idle" /\ collectorConfig.dryRun) => disk = diskBefore

\* What run() does with --dry-run is what it does without
C26_DryRunIgnored ==
    cpc = "done" => (OutputDirs \cup {StateFile}) \subseteq disk


\* ------------------------------------------------------------------------
\* The analyzer's main sequence (analyzer, index): calculateAllMetrics,
\* detectCommunities, calculateModularity, calculateInfluenceScores,
\* exportVisualizationData, each stage on what the stages before it left
\* ------------------------------------------------------------------------

MainMaxNodes == 3
MainMaxEdges == 2

\* A density that is 1 when there is at most one node
DensityOneWhenSmall(g) ==
    IF g.n > 1 THEN RNorm(Cardinality(Edges(g)), g.n * (g.n - 1)) ELSE ROne

\* const density = N > 1 ? E / (N * (N - 1)) : 0
Density(g) ==
    IF g.n > 1 THEN RNorm(Cardinality(Edges(g)), g.n * (g.n - 1)) ELSE RZero

\* countComponents: the weakly connected components
CountComponents(g) == Cardinality({ ComponentOf(g, {v}) : v \in Nodes(g) })

\* The NetworkMetrics calculateAllMetrics returns
NetworkMetricsOf(g) ==
    [density |-> Density(g),
     modularity |-> RZero,
     component_count |-> CountComponents(g),
     node_count |-> g.n,
     edge_count |-> Cardinality(Edges(g))]

\* The betweenness scores over one denominator: min-max normalization and
\* the order of the scores are the same for the numerators
BetweennessNumerators(bet) ==
    LET den == LcmOver({ bet[v][2] : v \in DOMAIN bet })
    IN  [v \in DOMAIN bet |-> bet[v][1] * (den \div bet[v][2])]

\* karma, post_count and comment_count, which buildGraph copied from the agents
AgentAttrChoices == [karma : {0, 3}, post_count : {0}, comment_count : {0, 1}]

\* The node attributes calculateInfluenceScores reads, as the stages set them
NodeAttributes(g, agent) ==
    [v \in Nodes(g) |->
        [pagerank |-> ranks[v],
         in_degree |-> Cardinality(InNeighbors(g, v)),
         karma |-> agent[v].karma,
         post_count |-> agent[v].post_count,
         comment_count |-> agent[v].comment_count,
         betweenness |-> BetweennessNumerators(betweenness)[v],
         community_id |-> communityMap[v]]]

\* buildGraph has returned the graph; calculateAllMetrics starts with PageRank
InitMain ==
    /\ BuildIdle /\ MetricsIdle /\ CommunityIdle /\ ScorerIdle
    /\ MainIdle /\ CollectorSideIdle
    /\ \E n \in 0..MainMaxNodes : \E E \in SUBSET AllPairs(n) :
          /\ Cardinality(E) <= MainMaxEdges
          /\ graph = [n |-> n, w |-> [e \in E |-> 1]]
    /\ prpc = "start"
    /\ iter = 0
    /\ ranks = << >>
    /\ rankDen = 1
    /\ newRanks = << >>
    /\ diff = 0

\* calculateAllMetrics: from PageRank on to calculateBetweenness
MainBetweenness ==
    /\ prpc = "done"
    /\ mpc = "idle"
    /\ networkMetrics = << >>
    /\ mpc' = "betweenness"
    /\ sampleSize' = SampleSizeFor(graph.n)
    /\ UNCHANGED <<sources, si, betweenness, closeness, clustering>>
    /\ UNCHANGED <<buildVars, graph, prVars, cdVars, infVars, tierVars, exVars,
                   mainVars, limVars, colVars>>

\* calculateAllMetrics returns; detectCommunities is called
MainMetricsReturn ==
    /\ mpc = "done"
    /\ networkMetrics = << >>
    /\ networkMetrics' = NetworkMetricsOf(graph)
    /\ cdpc' = "start"
    /\ UNCHANGED <<nodeCommunity, improved, iterations, ci, communityMap, modularity>>
    /\ UNCHANGED <<buildVars, graph, metricVars, prVars, infVars, tierVars, exVars,
                   firstRun, limVars, colVars>>

\* networkMetrics.modularity = modularity; calculateInfluenceScores is called
MainScore ==
    /\ cdpc = "scored"
    /\ ipc = "idle"
    /\ networkMetrics' = [networkMetrics EXCEPT !.modularity = modularity]
    /\ \E agent \in [Nodes(graph) -> AgentAttrChoices] :
          attrs' = NodeAttributes(graph, agent)
    /\ weights' = DEFAULT_WEIGHTS
    /\ ipc' = "start"
    /\ UNCHANGED <<scores, profiles>>
    /\ UNCHANGED <<buildVars, graph, metricVars, prVars, cdVars, tierVars, exVars,
                   firstRun, limVars, colVars>>

\* exportVisualizationData is called, for the tier asked for or for a tier file
MainExport ==
    /\ ipc = "done"
    /\ epc = "idle"
    /\ config' \in TopConfigs \cup {CommunityConfig} \cup CustomConfigs
    /\ epc' = "start"
    /\ UNCHANGED <<ei, included, bundle>>
    /\ UNCHANGED <<buildVars, graph, metricVars, prVars, cdVars, infVars, tierVars,
                   mainVars, limVars, colVars>>

NextMain ==
    \/ PRStart
    \/ PRCompute
    \/ PRCommit
    \/ PRReturn
    \/ MainBetweenness
    \/ BetweennessStart
    \/ BrandesIter
    \/ BetweennessReturn
    \/ ClosenessIter
    \/ ClosenessReturn
    \/ ClusteringAll
    \/ MainMetricsReturn
    \/ CDStart
    \/ CDPassBegin
    \/ CDMoveNode
    \/ CDPassEnd
    \/ CDReturn
    \/ ModularityCall
    \/ MainScore
    \/ InfReturnEmpty
    \/ InfScore
    \/ InfSort
    \/ InfProfiles
    \/ MainExport
    \/ ExElite
    \/ ExExpandStart
    \/ ExExpandIter
    \/ ExExpandReturn
    \/ ExCommunity
    \/ ExCustom
    \/ ExDefault
    \/ ExBundle

SpecMain == InitMain /\ [][NextMain]_vars

\* C25: on a graph without nodes every stage returns, and returns the empty
\* result: density 0 and node and edge counts 0, an empty community map,
\* modularity 0, no profiles, and an export without nodes and links whose
\* top_influencer is '' and whose avg_influence_score is 0
C25_EmptyGraph ==
    graph.n = 0 =>
        /\ networkMetrics # << >> =>
              /\ networkMetrics.density = RZero
              /\ networkMetrics.node_count = 0
              /\ networkMetrics.edge_count = 0
        /\ cdpc \in {"done", "scored"} => communityMap = << >>
        /\ cdpc = "scored" => modularity = RZero
        /\ ipc = "done" => profiles = << >>
        /\ epc = "exported" =>
              /\ bundle.nodes = << >>
              /\ bundle.links = << >>
              /\ bundle.top_influencer = EmptyName
              /\ bundle.avg_influence_score = RZero
        /\ epc # "exported" => ENABLED NextMain

\* The export of a graph without nodes has been made
C25_Witness ==
    /\ graph.n = 0
    /\ networkMetrics # << >>
    /\ cdpc = "scored"
    /\ ipc = "done"
    /\ epc = "exported"
    /\ bundle.nodes = << >>

\* The same sequence on a graph with nodes ends with a non-empty export
C25_NonEmptyReached ==
    /\ graph.n > 0
    /\ epc = "exported"
    /\ Len(bundle.nodes) > 0
    /\ Len(bundle.links) > 0


\* ------------------------------------------------------------------------
\* The node metrics of calculateAllMetrics, computed twice on one graph
\* ------------------------------------------------------------------------

\* The small graphs that are run twice
RerunMaxNodes == 3
RerunMaxEdges == 2

\* The nodes of the large graph: more than the threshold of the sampling
LargeNodes == 1001

\* A path 1 -> 2 -> 3 among LargeNodes nodes, the others isolated
LargeGraph == [n |-> LargeNodes, w |-> [e \in {<<1, 2>>, <<2, 3>>} |-> 1]]

InitRerun ==
    /\ BuildIdle /\ PageRankIdle /\ CommunityIdle /\ ScorerIdle
    /\ MainIdle /\ CollectorSideIdle
    /\ \/ \E n \in 0..RerunMaxNodes : \E E \in SUBSET AllPairs(n) :
             /\ Cardinality(E) <= RerunMaxEdges
             /\ graph = [n |-> n, w |-> [e \in E |-> 1]]
       \/ graph = LargeGraph
    /\ mpc = "betweenness"
    /\ sampleSize = SampleSizeFor(graph.n)
    /\ sources = << >>
    /\ si = 0
    /\ betweenness = << >>
    /\ closeness = << >>
    /\ clustering = << >>

\* The analyzer is run again on the same input
RunAgain ==
    /\ mpc = "done"
    /\ firstRun = << >>
    /\ firstRun' = [betweenness |-> betweenness, closeness |-> closeness,
                    clustering |-> clustering]
    /\ mpc' = "betweenness"
    /\ sources' = << >>
    /\ si' = 0
    /\ betweenness' = << >>
    /\ closeness' = << >>
    /\ clustering' = << >>
    /\ UNCHANGED <<graph, sampleSize, networkMetrics>>
    /\ UNCHANGED <<buildVars, prVars, cdVars, infVars, tierVars, exVars, limVars, colVars>>

NextRerun ==
    \/ BetweennessStart
    \/ BrandesIter
    \/ BetweennessReturn
    \/ ClosenessIter
    \/ ClosenessReturn
    \/ ClusteringAll
    \/ RunAgain

SpecRerun == InitRerun /\ [][NextRerun]_vars

\* C24: the second run on the same input ends with the node metrics of the
\* first, whatever the size of the graph
C24_SameNodeMetrics ==
    (firstRun # << >> /\ mpc = "done") =>
        /\ betweenness = firstRun.betweenness
        /\ closeness = firstRun.closeness
        /\ clustering = firstRun.clustering

\* Without sampling, that is up to 1000 nodes, the second run repeats the first
C24_SameWithoutSampling ==
    (firstRun # << >> /\ mpc = "done" /\ sampleSize = 0) =>
        /\ betweenness = firstRun.betweenness
        /\ closeness = firstRun.closeness
        /\ clustering = firstRun.clustering

\* With sampling only the betweenness can differ
C24_OnlyBetweennessDiffers ==
    (firstRun # << >> /\ mpc = "done") =>
        /\ closeness = firstRun.closeness
        /\ clustering = firstRun.clustering

\* A graph of more than 1000 nodes has been analyzed twice
C24_LargeRerunReached ==
    /\ firstRun # << >>
    /\ mpc = "done"
    /\ graph.n > SampleThreshold
    /\ Len(sources) = SampleCap

====
